---- MODULE Spec2Model ----
(***************************************************************************)
(* A model of the TbO2 6502 emulator: the address-space layout builder     *)
(* (src/src/layout.rs), the storage devices (src/src/mem.rs) and the       *)
(* execution engine (src/src/cpu.rs, src/src/inst.rs).                     *)
(*                                                                         *)
(* Two specifications share the variables:                                 *)
(*   SpecLayout  a LayoutBuilder taking add_memory / assign_range calls    *)
(*               and then build();                                         *)
(*   Spec        a CPU constructed over a built layout and driven by the   *)
(*               host through step / irq / nmi / reset / set_pc.           *)
(***************************************************************************)
EXTENDS Integers, Sequences, FiniteSets, TLC

VARIABLES
    \* ---- LayoutBuilder (layout.rs:11-15) and the result of build()
    max_byte_cnt,     \* LayoutBuilder.max_byte_cnt
    mems,             \* LayoutBuilder.mems: the registered devices
    mappings,         \* LayoutBuilder.mappings: the MappingRequests, in call order
    built,            \* what build() returned (or that it has not run yet)
    \* ---- CPU (cpu.rs:10-23)
    phase,            \* "unbuilt" | "running" | "none" | "panicked" | "dropped"
    layout,           \* CPU.layout: [byte_cnt, mems, mappings]
    attached,         \* whether layout.attach() ran and layout.detach() did not
    pc, sp, a, x, y,  \* registers
    status,           \* the seven flags
    ret,              \* what the last host call returned
    bus,              \* the reads and writes the last host call put on the layout
    hooks,            \* the lifecycle hooks the last host call ran on the devices
    overflow_checks,  \* the build profile: arithmetic overflow panics (debug) or wraps
    ncalls,           \* host calls made so far
    \* ---- SerialIO (devices/serial.rs:9-14), its stream and its two threads
    serial

lbVars  == <<max_byte_cnt, mems, mappings, built>>
cpuVars == <<phase, layout, attached, pc, sp, a, x, y, status, ret, bus, hooks,
             overflow_checks, ncalls>>
devVars == <<serial>>
vars    == <<max_byte_cnt, mems, mappings, built, phase, layout, attached,
             pc, sp, a, x, y, status, ret, bus, hooks, overflow_checks, ncalls,
             serial>>

(***************************************************************************)
(* Bounds of the model.                                                    *)
(***************************************************************************)
MaxSpace == 3
MaxReqs == 2
MaxCalls == 4
MaxRun == 264
RunReqs == 3
MaxInput == 2
MaxKeys == 2
StackFrames == 3
SerialCalls == 3
MaxWorkers == 2

(***************************************************************************)
(* Fixed-width arithmetic.                                                 *)
(***************************************************************************)
Byte == 0..255

RECURSIVE BitAnd(_, _)
BitAnd(p, q) ==
    IF p = 0 \/ q = 0 THEN 0
    ELSE (p % 2) * (q % 2) + 2 * BitAnd(p \div 2, q \div 2)

RECURSIVE BitOr(_, _)
BitOr(p, q) ==
    IF p = 0 THEN q
    ELSE IF q = 0 THEN p
    ELSE (IF p % 2 = 1 \/ q % 2 = 1 THEN 1 ELSE 0) + 2 * BitOr(p \div 2, q \div 2)

RECURSIVE BitXor(_, _)
BitXor(p, q) ==
    IF p = 0 THEN q
    ELSE IF q = 0 THEN p
    ELSE ((p + q) % 2) + 2 * BitXor(p \div 2, q \div 2)

\* u8 / u16 wrapping arithmetic
wrap8(n) == n % 256
wrap16(n) == n % 65536

Max(S) == CHOOSE m \in S : \A o \in S : o <= m

\* F applied to the value of e, which is computed once
Bind(e, F(_)) == CHOOSE r \in {F(b) : b \in {e}} : TRUE

(***************************************************************************)
(* Storage devices (mem.rs).  A device's data array is kept sparsely: the  *)
(* function holds the non-zero cells, every other cell reads 0, which is   *)
(* what the arrays start as.                                               *)
(***************************************************************************)
NoData == [c \in {} |-> 0]

Cell(data, c) == IF c \in DOMAIN data THEN data[c] ELSE 0

SetCell(data, c, b) ==
    IF b = 0
    THEN [d \in (DOMAIN data) \ {c} |-> data[d]]
    ELSE [d \in (DOMAIN data) \cup {c} |-> IF d = c THEN b ELSE data[d]]

RAM(n) == [kind |-> "RAM", cap |-> n, data |-> NoData]
ROM(n) == [kind |-> "ROM", cap |-> n, data |-> NoData]

\* a device that keeps the defaults of the Device trait (devices/mod.rs:5-21):
\* its hooks do nothing, its read and write return None
BareDevice(n) == [kind |-> "Device", cap |-> n, data |-> NoData]

\* load_bytes: copy an image (a function from offsets to bytes) into the array
load_bytes(dev, image) ==
    [dev EXCEPT !.data = [c \in {d \in DOMAIN image : image[d] # 0} |-> image[c]]]

\* Memory::get_byte_count
get_byte_count(dev) == dev.cap

None == [some |-> FALSE]
Some(v) == [some |-> TRUE, v |-> v]

\* Memory::read_byte of RAM and of ROM: the address wraps at the capacity;
\* the default Device::read refuses
dev_read_byte(dev, addr) ==
    IF dev.kind = "Device" THEN None ELSE Some(Cell(dev.data, addr % dev.cap))

\* write_byte, were RAM to acknowledge a write without storing it
dev_write_byte_dropped(dev, addr, data) == [dev |-> dev, ack |-> dev.kind = "RAM"]

\* write_byte, were ROM to store like RAM
dev_write_byte_rom_stores(dev, addr, data) ==
    [dev |-> [dev EXCEPT !.data = SetCell(dev.data, addr % dev.cap, data)],
     ack |-> TRUE]

\* Memory::write_byte: RAM stores and acknowledges, ROM refuses, as does the
\* default Device::write.
\* The result is the device after the call and the acknowledgement.
dev_write_byte(dev, addr, data) ==
    IF dev.kind = "RAM"
    THEN [dev |-> [dev EXCEPT !.data = SetCell(dev.data, addr % dev.cap, data)],
          ack |-> TRUE]
    ELSE [dev |-> dev, ack |-> FALSE]

(***************************************************************************)
(* LayoutBuilder::build (layout.rs:49-136).                                *)
(***************************************************************************)
\* The MemId that marks an unpainted slot (MemId(usize::MAX) in the source).
NoMemId == -1

Req(s, c, m) == [addr_start |-> s, byte_cnt |-> c, mem_id |-> m]

ErrUnassigned(lo, hi) == [tag |-> "UnassignedRange", lo |-> lo, hi |-> hi]
ErrVirtual(lo, hi) == [tag |-> "VirtualAddressOutOfRange", lo |-> lo, hi |-> hi]
ErrMemRange(m) == [tag |-> "MemoryOutOfRange", mem_id |-> m]
ErrInvalid(m) == [tag |-> "InvalidMemoryId", mem_id |-> m]
Panicked == [tag |-> "panic"]
NotBuilt == [tag |-> "unbuilt"]

\* no SerialIO has been constructed
NoSerial == [rd |-> "absent"]

\* PaintRange, were an address to stay with the first request that took it
PaintRange_keep_earlier(space, r) ==
    [i \in DOMAIN space |->
        IF i >= r.addr_start /\ i < r.addr_start + r.byte_cnt /\ space[i] = NoMemId
        THEN r.mem_id
        ELSE space[i]]

\* One MappingRequest painted over the space (layout.rs:75-77).
PaintRange(space, r) ==
    [i \in DOMAIN space |->
        IF i >= r.addr_start /\ i < r.addr_start + r.byte_cnt THEN r.mem_id
        ELSE space[i]]

\* The first loop (layout.rs:54-78): validate and paint each request in call
\* order; the first failing request ends build().
RECURSIVE Paint(_, _, _, _, _)
Paint(space, size, devs, reqs, k) ==
    IF k > Len(reqs) THEN [tag |-> "painted", space |-> space]
    ELSE LET r == reqs[k] IN
         IF r.addr_start + r.byte_cnt > size
            THEN ErrVirtual(r.addr_start, r.addr_start + r.byte_cnt)
         ELSE IF ~(r.mem_id \in 0..(Len(devs) - 1))
            THEN ErrInvalid(r.mem_id)
         ELSE IF r.byte_cnt > get_byte_count(devs[r.mem_id + 1])
            THEN ErrMemRange(r.mem_id)
         ELSE Paint(PaintRange(space, r), size, devs, reqs, k + 1)

\* take_while over the slots after i (layout.rs:82): how many are unpainted
RECURSIVE UnpaintedRun(_, _, _)
UnpaintedRun(space, size, j) ==
    IF j < size /\ space[j] = NoMemId THEN 1 + UnpaintedRun(space, size, j + 1)
    ELSE 0

\* The second loop (layout.rs:80-85): the first unpainted slot, if any.
FirstGap(space, size) ==
    LET gaps == {i \in 0..(size - 1) : space[i] = NoMemId} IN
    IF gaps = {} THEN None
    ELSE LET i == CHOOSE g \in gaps : \A o \in gaps : g <= o IN
         Some(ErrUnassigned(i, i + UnpaintedRun(space, size, i + 1)))

Mapping(vs, ps, m) ==
    [virtual_addr_start |-> vs, physical_addr_start |-> ps, mem_id |-> m]

\* the accumulator, were every run to start at its device's first byte
PhysBase_always_zero(phys, m) == 0

\* phys_mapping.entry(mem_id).or_default() (layout.rs:95, 118)
PhysBase(phys, m) == IF m \in DOMAIN phys THEN phys[m] ELSE 0

\* The third loop (layout.rs:92-114): close a run whenever the painted id
\* changes.  st is the loop's state: the table so far, the per-device
\* accumulator, the open run's start and device.
RECURSIVE Coalesce(_, _, _, _, _)
Coalesce(space, size, devs, st, i) ==
    IF i >= size THEN [tag |-> "runs", st |-> st]
    ELSE IF space[i] # st.mem_id
    THEN LET base == PhysBase(st.phys, st.mem_id)
             cnt == i - st.start
         IN IF base + cnt > get_byte_count(devs[st.mem_id + 1])
            THEN ErrMemRange(st.mem_id)
            ELSE Coalesce(space, size, devs,
                    [table |-> [s \in (DOMAIN st.table) \cup {st.start} |->
                                    IF s = st.start
                                    THEN Mapping(st.start, base, st.mem_id)
                                    ELSE st.table[s]],
                     phys |-> [m \in (DOMAIN st.phys) \cup {st.mem_id} |->
                                    IF m = st.mem_id THEN base + cnt
                                    ELSE st.phys[m]],
                     start |-> i,
                     mem_id |-> space[i]],
                    i + 1)
    ELSE Coalesce(space, size, devs, st, i + 1)

\* The last run (layout.rs:116-133) and Layout::new (layout.rs:135).
CloseLast(size, devs, st) ==
    LET base == PhysBase(st.phys, st.mem_id)
        cnt == size - st.start
    IN IF base + cnt > get_byte_count(devs[st.mem_id + 1])
       THEN ErrMemRange(st.mem_id)
       ELSE [tag |-> "Ok",
             layout |-> [byte_cnt |-> size,
                         mems |-> devs,
                         mappings |-> [s \in (DOMAIN st.table) \cup {st.start} |->
                                          IF s = st.start
                                          THEN Mapping(st.start, base, st.mem_id)
                                          ELSE st.table[s]]]]

build(size, devs, reqs) ==
    LET p == Paint([i \in 0..(size - 1) |-> NoMemId], size, devs, reqs, 1) IN
    IF p.tag # "painted" THEN p
    ELSE LET gap == FirstGap(p.space, size) IN
         IF gap.some THEN gap.v
         ELSE IF size = 0 THEN Panicked      \* space[0] of an empty Vec (layout.rs:90)
         ELSE LET runs == Coalesce(p.space, size, devs,
                              [table |-> NoData, phys |-> NoData,
                               start |-> 0, mem_id |-> p.space[0]], 0)
              IN IF runs.tag # "runs" THEN runs
                 ELSE CloseLast(size, devs, runs.st)

(***************************************************************************)
(* Layout (layout.rs:159-209).                                             *)
(***************************************************************************)
\* get_mapping_at_addr, were the range to end before addr (..addr)
get_mapping_below_addr(l, addr) ==
    LET below == {s \in DOMAIN l.mappings : s < addr} IN
    IF below = {} THEN None ELSE Some(l.mappings[Max(below)])

\* BTreeMap::range(..=addr).next_back(): the entry with the greatest start <= addr
get_mapping_at_addr(l, addr) ==
    LET below == {s \in DOMAIN l.mappings : s <= addr} IN
    IF below = {} THEN None ELSE Some(l.mappings[Max(below)])

\* the translation, were the offset into the range to be dropped
Translate_to_base(mp, addr) == mp.physical_addr_start

\* The device-local address a mapping sends addr to (layout.rs:193, 203)
Translate(mp, addr) == mp.physical_addr_start + (addr - mp.virtual_addr_start)

Layout_read_byte(l, addr) ==
    LET mp == get_mapping_at_addr(l, addr) IN
    IF ~mp.some THEN None
    ELSE dev_read_byte(l.mems[mp.v.mem_id + 1], Translate(mp.v, addr))

\* The layout after the write, and whether the device acknowledged it.
Layout_write_byte(l, addr, data) ==
    LET mp == get_mapping_at_addr(l, addr) IN
    IF ~mp.some THEN [layout |-> l, ack |-> FALSE]
    ELSE LET w == dev_write_byte(l.mems[mp.v.mem_id + 1], Translate(mp.v, addr), data)
         IN [layout |-> [l EXCEPT !.mems[mp.v.mem_id + 1] = w.dev], ack |-> w.ack]

\* The lifecycle sweeps of the Layout (Device for Layout: cpu.rs:43, 53, 71
\* call them): the hook runs on every device the layout owns, in the order
\* the devices were registered.
Hook(name, k) == [hook |-> name, dev |-> k]

Layout_sweep(l, name) == [k \in 1..Len(l.mems) |-> Hook(name, k - 1)]

Layout_attach(l) == Layout_sweep(l, "attach")
Layout_detach(l) == Layout_sweep(l, "detach")
Layout_reset(l) == Layout_sweep(l, "reset")

NoLayout == [byte_cnt |-> 0, mems |-> <<>>, mappings |-> NoData]

(***************************************************************************)
(* SpecLayout: the builder.                                                *)
(***************************************************************************)
\* The devices a host registers: RAM<N> and ROM<N> for the small capacities.
DeviceTypes == {RAM(MaxSpace), ROM(1)}

CpuIdle ==
    /\ phase = "unbuilt" /\ layout = NoLayout /\ attached = FALSE
    /\ pc = 0 /\ sp = 0 /\ a = 0 /\ x = 0 /\ y = 0
    /\ status = [negative |-> FALSE, overflow |-> FALSE, break_ |-> FALSE,
                 decimal |-> FALSE, int_disable |-> FALSE, zero |-> FALSE,
                 carry |-> FALSE]
    /\ ret = "none" /\ bus = <<>> /\ hooks = <<>> /\ overflow_checks = FALSE
    /\ ncalls = 0

\* LayoutBuilder::new(max_byte_cnt)
InitLayout ==
    /\ max_byte_cnt \in 0..MaxSpace
    /\ mems = <<>>
    /\ mappings = <<>>
    /\ built = NotBuilt
    /\ CpuIdle
    /\ serial = NoSerial

\* LayoutBuilder::add_memory: the new device's MemId is its index
add_memory ==
    /\ built = NotBuilt
    /\ Len(mems) < MaxReqs
    /\ \E d \in DeviceTypes : mems' = Append(mems, d)
    /\ UNCHANGED <<max_byte_cnt, mappings, built>>
    /\ UNCHANGED cpuVars
    /\ UNCHANGED devVars

\* LayoutBuilder::assign_range: an empty range is dropped, any other is queued
assign_range ==
    /\ built = NotBuilt
    /\ Len(mappings) < MaxReqs
    /\ \E s \in 0..(MaxSpace - 1), c \in 0..MaxSpace, m \in 0..Len(mems) :
          /\ s + c <= MaxSpace
          /\ mappings' = IF c = 0 THEN mappings ELSE Append(mappings, Req(s, c, m))
    /\ UNCHANGED <<max_byte_cnt, mems, built>>
    /\ UNCHANGED cpuVars
    /\ UNCHANGED devVars

\* LayoutBuilder::build consumes the builder
Build ==
    /\ built = NotBuilt
    /\ built' = build(max_byte_cnt, mems, mappings)
    /\ UNCHANGED <<max_byte_cnt, mems, mappings>>
    /\ UNCHANGED cpuVars
    /\ UNCHANGED devVars

NextLayout == add_memory \/ assign_range \/ Build

SpecLayout == InitLayout /\ [][NextLayout]_vars

(***************************************************************************)
(* SpecRuns: build() on every sequence of RunReqs non-empty requests over  *)
(* two registered devices.                                                 *)
(***************************************************************************)
\* the devices registered: a RAM that can hold the space with a ROM of one
\* byte, or with a second RAM
RunDevices ==
    {<<RAM(MaxSpace), ROM(1)>>, <<RAM(MaxSpace), RAM(MaxSpace)>>}

\* the assign_range calls that queue a request inside the space
RunRequests ==
    {Req(s, c, m) : s \in 0..(MaxSpace - 1), c \in 1..MaxSpace, m \in 0..1}

InitRuns ==
    /\ max_byte_cnt = MaxSpace
    /\ mems \in RunDevices
    /\ mappings \in [1..RunReqs -> {r \in RunRequests : r.addr_start + r.byte_cnt <= MaxSpace}]
    /\ built = NotBuilt
    /\ CpuIdle
    /\ serial = NoSerial

SpecRuns == InitRuns /\ [][Build]_vars

(***************************************************************************)
(* Claims about build().                                                   *)
(***************************************************************************)
Covers(r, addr) == addr >= r.addr_start /\ addr < r.addr_start + r.byte_cnt

Assigned(addr) == \E k \in 1..Len(mappings) : Covers(mappings[k], addr)

\* The half-open address range a table entry stands for: from its start to
\* the next entry's start, the last one to the end of the space.
RangeEnd(l, s) ==
    LET above == {t \in DOMAIN l.mappings : t > s} IN
    IF above = {} THEN l.byte_cnt
    ELSE CHOOSE t \in above : \A o \in above : t <= o

InRange(l, s, addr) == addr >= s /\ addr < RangeEnd(l, s)

\* C2: in every Layout a successful build() returns, the range table is keyed
\* by each range's own start, its ranges are pairwise disjoint and cover the
\* whole address space, and every address resolves to a registered device.
C2_BuiltLayoutCoversSpace ==
    built.tag = "Ok" =>
        LET l == built.layout IN
        /\ l.byte_cnt = max_byte_cnt
        /\ \A s \in DOMAIN l.mappings :
              /\ l.mappings[s].virtual_addr_start = s
              /\ s \in 0..(l.byte_cnt - 1)
        /\ \A addr \in 0..(l.byte_cnt - 1) :
              /\ Cardinality({s \in DOMAIN l.mappings : InRange(l, s, addr)}) = 1
              /\ get_mapping_at_addr(l, addr).some
              /\ InRange(l, get_mapping_at_addr(l, addr).v.virtual_addr_start, addr)
              /\ get_mapping_at_addr(l, addr).v.mem_id \in 0..(Len(l.mems) - 1)

C2_Witness ==
    /\ built.tag = "Ok"
    /\ Cardinality(DOMAIN built.layout.mappings) >= 2
    /\ built.layout.byte_cnt = MaxSpace

\* C3: an UnassignedRange(g..e) error names the first unassigned address g
\* and the end e, one past the last address, of the maximal unassigned run
\* that starts at g.
C3_UnassignedRangeIsMaximalRun ==
    built.tag = "UnassignedRange" =>
        /\ ~Assigned(built.lo)
        /\ \A addr \in 0..(built.lo - 1) : Assigned(addr)
        /\ built.hi > built.lo
        /\ \A addr \in built.lo..(built.hi - 1) : ~Assigned(addr)
        /\ built.hi = max_byte_cnt \/ Assigned(built.hi)

\* C4: build() returns a Layout or one of the four BuildErrors; it never
\* aborts.
C4_BuildNeverAborts ==
    built.tag \in {"unbuilt", "Ok", "UnassignedRange", "VirtualAddressOutOfRange",
                   "MemoryOutOfRange", "InvalidMemoryId"}

Overlapping ==
    \E i, j \in 1..Len(mappings) :
        /\ i < j
        /\ \E addr \in 0..MaxSpace : Covers(mappings[i], addr) /\ Covers(mappings[j], addr)

\* C5 as stated: when two assign_range calls cover a common address, build()
\* fails with an error.
C5_OverlapIsAnError ==
    (built # NotBuilt /\ Overlapping) =>
        built.tag \in {"UnassignedRange", "VirtualAddressOutOfRange",
                       "MemoryOutOfRange", "InvalidMemoryId"}

\* The last assign_range call that covers addr
LastCovering(addr) ==
    Max({k \in 1..Len(mappings) : Covers(mappings[k], addr)})

\* C5 as amended: an overlap is not an error of its own; in a Layout that
\* build() returns, every address is routed to the device of the last
\* assign_range call covering it, so a later assignment overrides an earlier.
C5_LaterAssignmentOverrides ==
    built.tag = "Ok" =>
        \A addr \in 0..(max_byte_cnt - 1) :
            /\ Assigned(addr)
            /\ get_mapping_at_addr(built.layout, addr).some
            /\ get_mapping_at_addr(built.layout, addr).v.mem_id
                  = mappings[LastCovering(addr)].mem_id

C5_Witness ==
    /\ built.tag = "Ok"
    /\ \E i, j \in 1..Len(mappings) :
          /\ i < j
          /\ mappings[i].mem_id # mappings[j].mem_id
          /\ \E addr \in 0..(max_byte_cnt - 1) :
                /\ Covers(mappings[i], addr) /\ Covers(mappings[j], addr)
                /\ get_mapping_at_addr(built.layout, addr).v.mem_id = mappings[j].mem_id

\* the device the requests leave addr painted with
PaintedWith(addr) == mappings[LastCovering(addr)].mem_id

\* the entries of l's table below s that name the device of the entry at s
LowerRuns(l, s) ==
    {t \in DOMAIN l.mappings : t < s /\ l.mappings[t].mem_id = l.mappings[s].mem_id}

RECURSIVE TotalLength(_, _)
TotalLength(l, T) ==
    IF T = {} THEN 0
    ELSE LET t == CHOOSE u \in T : TRUE
         IN (RangeEnd(l, t) - t) + TotalLength(l, T \ {t})

\* the call orders of n requests
Orders(n) == {f \in [1..n -> 1..n] : \A i, j \in 1..n : f[i] = f[j] => i = j}

\* the requests made in another order
Reordered(reqs, f) == [k \in 1..Len(reqs) |-> reqs[f[k]]]

\* C23: in a Layout that build() returns, every table entry stands for a run
\* of addresses painted with its device, neighbouring entries name different
\* devices (the runs are maximal), and an entry's physical base is the total
\* length of the same device's entries at lower addresses, 0 for its first;
\* requests that do not overlap give the same table in either call order.
C23_RunsAreMaximalAndBasesAccumulate ==
    built.tag = "Ok" =>
        LET l == built.layout IN
        /\ 0 \in DOMAIN l.mappings
        /\ \A s \in DOMAIN l.mappings :
              /\ \A addr \in s..(RangeEnd(l, s) - 1) :
                    PaintedWith(addr) = l.mappings[s].mem_id
              /\ RangeEnd(l, s) < l.byte_cnt =>
                    l.mappings[RangeEnd(l, s)].mem_id # l.mappings[s].mem_id
              /\ l.mappings[s].physical_addr_start = TotalLength(l, LowerRuns(l, s))
        /\ ~Overlapping =>
              \A f \in Orders(Len(mappings)) :
                  /\ build(max_byte_cnt, mems, Reordered(mappings, f)).tag = "Ok"
                  /\ build(max_byte_cnt, mems, Reordered(mappings, f)).layout.mappings
                        = l.mappings

\* A device assigned its upper range first and its lower range last, another
\* device between them: the upper run starts where the lower one ends in it.
C23_Witness ==
    /\ built.tag = "Ok"
    /\ ~Overlapping
    /\ mappings[1].addr_start > mappings[Len(mappings)].addr_start
    /\ mappings[1].mem_id = mappings[Len(mappings)].mem_id
    /\ mappings[1].addr_start \in DOMAIN built.layout.mappings
    /\ LowerRuns(built.layout, mappings[1].addr_start) = {0}
    /\ built.layout.mappings[mappings[1].addr_start].physical_addr_start = 1

(***************************************************************************)
(* The opcode decoder (inst.rs).                                           *)
(***************************************************************************)
\* decode_inst (inst.rs:59-196): the table as the source has it.
decode_inst(byte) ==
    CASE byte = \hA9 -> Some(<<"LDA", "Immediate">>)
      [] byte = \hA5 -> Some(<<"LDA", "ZeroPage">>)
      [] byte = \hB5 -> Some(<<"LDA", "ZeroPageX">>)
      [] byte = \hAD -> Some(<<"LDA", "Absolute">>)
      [] byte = \hBD -> Some(<<"LDA", "AbsoluteX">>)
      [] byte = \hB9 -> Some(<<"LDA", "AbsoluteY">>)
      [] byte = \hA1 -> Some(<<"LDA", "XIndirect">>)
      [] byte = \hB1 -> Some(<<"LDA", "IndirectY">>)
      [] byte = \hA2 -> Some(<<"LDX", "Immediate">>)
      [] byte = \hA6 -> Some(<<"LDX", "ZeroPage">>)
      [] byte = \hB6 -> Some(<<"LDX", "ZeroPageY">>)
      [] byte = \hAE -> Some(<<"LDX", "Absolute">>)
      [] byte = \hBE -> Some(<<"LDX", "AbsoluteY">>)
      [] byte = \hA0 -> Some(<<"LDY", "Immediate">>)
      [] byte = \hA4 -> Some(<<"LDY", "ZeroPage">>)
      [] byte = \hB4 -> Some(<<"LDY", "ZeroPageX">>)
      [] byte = \hAC -> Some(<<"LDY", "Absolute">>)
      [] byte = \hBC -> Some(<<"LDY", "AbsoluteX">>)
      [] byte = \h85 -> Some(<<"STA", "ZeroPage">>)
      [] byte = \h95 -> Some(<<"STA", "ZeroPageX">>)
      [] byte = \h8D -> Some(<<"STA", "Absolute">>)
      [] byte = \h9D -> Some(<<"STA", "AbsoluteX">>)
      [] byte = \h99 -> Some(<<"STA", "AbsoluteY">>)
      [] byte = \h81 -> Some(<<"STA", "XIndirect">>)
      [] byte = \h91 -> Some(<<"STA", "IndirectY">>)
      [] byte = \h86 -> Some(<<"STX", "ZeroPage">>)
      [] byte = \h96 -> Some(<<"STX", "ZeroPageY">>)
      [] byte = \h8E -> Some(<<"STX", "Absolute">>)
      [] byte = \h84 -> Some(<<"STY", "ZeroPage">>)
      [] byte = \h94 -> Some(<<"STY", "ZeroPageX">>)
      [] byte = \h8C -> Some(<<"STY", "Absolute">>)
      [] byte = \hAA -> Some(<<"TAX", "Implied">>)
      [] byte = \hA8 -> Some(<<"TAY", "Implied">>)
      [] byte = \hBA -> Some(<<"TSX", "Implied">>)
      [] byte = \h8A -> Some(<<"TXA", "Implied">>)
      [] byte = \h9A -> Some(<<"TXS", "Implied">>)
      [] byte = \h98 -> Some(<<"TYA", "Implied">>)
      [] byte = \h48 -> Some(<<"PHA", "Implied">>)
      [] byte = \h08 -> Some(<<"PHP", "Implied">>)
      [] byte = \h68 -> Some(<<"PLA", "Implied">>)
      [] byte = \h28 -> Some(<<"PLP", "Implied">>)
      [] byte = \hC6 -> Some(<<"DEC", "ZeroPage">>)
      [] byte = \hD6 -> Some(<<"DEC", "ZeroPageX">>)
      [] byte = \hCE -> Some(<<"DEC", "Absolute">>)
      [] byte = \hDE -> Some(<<"DEC", "AbsoluteX">>)
      [] byte = \hCA -> Some(<<"DEX", "Implied">>)
      [] byte = \h88 -> Some(<<"DEY", "Implied">>)
      [] byte = \hE6 -> Some(<<"INC", "ZeroPage">>)
      [] byte = \hF6 -> Some(<<"INC", "ZeroPageX">>)
      [] byte = \hEE -> Some(<<"INC", "Absolute">>)
      [] byte = \hFE -> Some(<<"INC", "AbsoluteX">>)
      [] byte = \hE8 -> Some(<<"INX", "Implied">>)
      [] byte = \hC8 -> Some(<<"INY", "Implied">>)
      [] byte = \h69 -> Some(<<"ADC", "Immediate">>)
      [] byte = \h65 -> Some(<<"ADC", "ZeroPage">>)
      [] byte = \h75 -> Some(<<"ADC", "ZeroPageX">>)
      [] byte = \h6D -> Some(<<"ADC", "Absolute">>)
      [] byte = \h7D -> Some(<<"ADC", "AbsoluteX">>)
      [] byte = \h79 -> Some(<<"ADC", "AbsoluteY">>)
      [] byte = \h61 -> Some(<<"ADC", "XIndirect">>)
      [] byte = \h71 -> Some(<<"ADC", "IndirectY">>)
      [] byte = \hE9 -> Some(<<"SBC", "Immediate">>)
      [] byte = \hE5 -> Some(<<"SBC", "ZeroPage">>)
      [] byte = \hF5 -> Some(<<"SBC", "ZeroPageX">>)
      [] byte = \hED -> Some(<<"SBC", "Absolute">>)
      [] byte = \hFD -> Some(<<"SBC", "AbsoluteX">>)
      [] byte = \hF9 -> Some(<<"SBC", "AbsoluteY">>)
      [] byte = \hE1 -> Some(<<"SBC", "XIndirect">>)
      [] byte = \hF1 -> Some(<<"SBC", "IndirectY">>)
      [] byte = \h29 -> Some(<<"AND", "Immediate">>)
      [] byte = \h25 -> Some(<<"AND", "ZeroPage">>)
      [] byte = \h35 -> Some(<<"AND", "ZeroPageX">>)
      [] byte = \h2D -> Some(<<"AND", "Absolute">>)
      [] byte = \h3D -> Some(<<"AND", "AbsoluteX">>)
      [] byte = \h39 -> Some(<<"AND", "AbsoluteY">>)
      [] byte = \h21 -> Some(<<"AND", "XIndirect">>)
      [] byte = \h31 -> Some(<<"AND", "IndirectY">>)
      [] byte = \h49 -> Some(<<"EOR", "Immediate">>)
      [] byte = \h45 -> Some(<<"EOR", "ZeroPage">>)
      [] byte = \h55 -> Some(<<"EOR", "ZeroPageX">>)
      [] byte = \h4D -> Some(<<"EOR", "Absolute">>)
      [] byte = \h5D -> Some(<<"EOR", "AbsoluteX">>)
      [] byte = \h59 -> Some(<<"EOR", "AbsoluteY">>)
      [] byte = \h41 -> Some(<<"EOR", "XIndirect">>)
      [] byte = \h51 -> Some(<<"EOR", "IndirectY">>)
      [] byte = \h09 -> Some(<<"ORA", "Immediate">>)
      [] byte = \h05 -> Some(<<"ORA", "ZeroPage">>)
      [] byte = \h15 -> Some(<<"ORA", "ZeroPageX">>)
      [] byte = \h0D -> Some(<<"ORA", "Absolute">>)
      [] byte = \h1D -> Some(<<"ORA", "AbsoluteX">>)
      [] byte = \h19 -> Some(<<"ORA", "AbsoluteY">>)
      [] byte = \h01 -> Some(<<"ORA", "XIndirect">>)
      [] byte = \h11 -> Some(<<"ORA", "IndirectY">>)
      [] byte = \h0A -> Some(<<"ASL", "Implied">>)
      [] byte = \h06 -> Some(<<"ASL", "ZeroPage">>)
      [] byte = \h16 -> Some(<<"ASL", "ZeroPageX">>)
      [] byte = \h0E -> Some(<<"ASL", "Absolute">>)
      [] byte = \h1E -> Some(<<"ASL", "AbsoluteX">>)
      [] byte = \h4A -> Some(<<"LSR", "Implied">>)
      [] byte = \h46 -> Some(<<"LSR", "ZeroPage">>)
      [] byte = \h56 -> Some(<<"LSR", "ZeroPageX">>)
      [] byte = \h4E -> Some(<<"LSR", "Absolute">>)
      [] byte = \h5E -> Some(<<"LSR", "AbsoluteX">>)
      [] byte = \h2A -> Some(<<"ROL", "Implied">>)
      [] byte = \h26 -> Some(<<"ROL", "ZeroPage">>)
      [] byte = \h36 -> Some(<<"ROL", "ZeroPageX">>)
      [] byte = \h2E -> Some(<<"ROL", "Absolute">>)
      [] byte = \h3E -> Some(<<"ROL", "AbsoluteX">>)
      [] byte = \h6A -> Some(<<"ROR", "Implied">>)
      [] byte = \h66 -> Some(<<"ROR", "ZeroPage">>)
      [] byte = \h76 -> Some(<<"ROR", "ZeroPageX">>)
      [] byte = \h6E -> Some(<<"ROR", "Absolute">>)
      [] byte = \h7E -> Some(<<"ROR", "AbsoluteX">>)
      [] OTHER -> None

\* The mnemonics CPU::step dispatches on (cpu.rs:411-591) that the Inst enum
\* and the decode_inst of inst.rs do not hold: their opcodes are taken from
\* the reference 6502 opcode matrix the specification refers to.
decode_ref(byte) ==
    CASE byte = \h18 -> Some(<<"CLC", "Implied">>)
      [] byte = \hD8 -> Some(<<"CLD", "Implied">>)
      [] byte = \h58 -> Some(<<"CLI", "Implied">>)
      [] byte = \hB8 -> Some(<<"CLV", "Implied">>)
      [] byte = \h38 -> Some(<<"SEC", "Implied">>)
      [] byte = \hF8 -> Some(<<"SED", "Implied">>)
      [] byte = \h78 -> Some(<<"SEI", "Implied">>)
      [] byte = \hC9 -> Some(<<"CMP", "Immediate">>)
      [] byte = \hC5 -> Some(<<"CMP", "ZeroPage">>)
      [] byte = \hD5 -> Some(<<"CMP", "ZeroPageX">>)
      [] byte = \hCD -> Some(<<"CMP", "Absolute">>)
      [] byte = \hDD -> Some(<<"CMP", "AbsoluteX">>)
      [] byte = \hD9 -> Some(<<"CMP", "AbsoluteY">>)
      [] byte = \hC1 -> Some(<<"CMP", "XIndirect">>)
      [] byte = \hD1 -> Some(<<"CMP", "IndirectY">>)
      [] byte = \hE0 -> Some(<<"CPX", "Immediate">>)
      [] byte = \hE4 -> Some(<<"CPX", "ZeroPage">>)
      [] byte = \hEC -> Some(<<"CPX", "Absolute">>)
      [] byte = \hC0 -> Some(<<"CPY", "Immediate">>)
      [] byte = \hC4 -> Some(<<"CPY", "ZeroPage">>)
      [] byte = \hCC -> Some(<<"CPY", "Absolute">>)
      [] byte = \h90 -> Some(<<"BCC", "Relative">>)
      [] byte = \hB0 -> Some(<<"BCS", "Relative">>)
      [] byte = \hD0 -> Some(<<"BNE", "Relative">>)
      [] byte = \hF0 -> Some(<<"BEQ", "Relative">>)
      [] byte = \h10 -> Some(<<"BPL", "Relative">>)
      [] byte = \h30 -> Some(<<"BMI", "Relative">>)
      [] byte = \h50 -> Some(<<"BVC", "Relative">>)
      [] byte = \h70 -> Some(<<"BVS", "Relative">>)
      [] byte = \h4C -> Some(<<"JMP", "Absolute">>)
      [] byte = \h6C -> Some(<<"JMP", "Indirect">>)
      [] byte = \h20 -> Some(<<"JSR", "Absolute">>)
      [] byte = \h60 -> Some(<<"RTS", "Implied">>)
      [] byte = \h00 -> Some(<<"BRK", "Implied">>)
      [] byte = \h40 -> Some(<<"RTI", "Implied">>)
      [] byte = \h24 -> Some(<<"BIT", "ZeroPage">>)
      [] byte = \h2C -> Some(<<"BIT", "Absolute">>)
      [] byte = \hEA -> Some(<<"NOP", "Implied">>)
      [] OTHER -> None

\* The decoder CPU::step runs (cpu.rs:119)
Decode(byte) == IF decode_inst(byte).some THEN decode_inst(byte) ELSE decode_ref(byte)

(***************************************************************************)
(* Status (cpu.rs:830-864).                                                *)
(***************************************************************************)
\* Status::default()
StatusDefault ==
    [negative |-> FALSE, overflow |-> FALSE, break_ |-> FALSE, decimal |-> FALSE,
     int_disable |-> FALSE, zero |-> FALSE, carry |-> FALSE]

Bit(f) == IF f THEN 1 ELSE 0

\* the packing, were the reserved bit left clear
StatusToByte_reserved_clear(st) ==
    Bit(st.negative) * 128 + Bit(st.overflow) * 64 + Bit(st.break_) * 16
        + Bit(st.decimal) * 8 + Bit(st.int_disable) * 4 + Bit(st.zero) * 2
        + Bit(st.carry)

\* From<Status> for u8
StatusToByte(st) ==
    BitOr(Bit(st.negative) * 128,
    BitOr(Bit(st.overflow) * 64,
    BitOr(32,
    BitOr(Bit(st.break_) * 16,
    BitOr(Bit(st.decimal) * 8,
    BitOr(Bit(st.int_disable) * 4,
    BitOr(Bit(st.zero) * 2, Bit(st.carry))))))))

\* From<u8> for Status
ByteToStatus(value) ==
    [negative |-> BitAnd(value, 128) > 0,
     overflow |-> BitAnd(value, 64) > 0,
     break_ |-> BitAnd(value, 16) > 0,
     decimal |-> BitAnd(value, 8) > 0,
     int_disable |-> BitAnd(value, 4) > 0,
     zero |-> BitAnd(value, 2) > 0,
     carry |-> BitAnd(value, 1) > 0]

(***************************************************************************)
(* The engine (cpu.rs).  A machine is the record of the CPU's fields       *)
(* together with the bus traffic of the call in progress, the value the    *)
(* last helper produced (v), the effective address it resolved (ea) and    *)
(* whether the call has panicked.  The debug_* fields, which only feed the *)
(* trace output, are left out.                                             *)
(***************************************************************************)
Rd(addr, data) == [op |-> "r", addr |-> addr, data |-> data]
Wr(addr, data) == [op |-> "w", addr |-> addr, data |-> data]

\* read_byte, were a refused read to yield 0xFF
read_byte_open_bus(m, addr) ==
    IF m.panic THEN m
    ELSE LET r == Layout_read_byte(m.layout, addr)
             val == IF r.some THEN r.v ELSE 255
         IN [m EXCEPT !.v = val, !.bus = Append(@, Rd(addr, val))]

\* CPU::read_byte (cpu.rs:793-803): a refused read yields 0
read_byte(m, addr) ==
    IF m.panic THEN m
    ELSE LET r == Layout_read_byte(m.layout, addr)
             val == IF r.some THEN r.v ELSE 0
         IN [m EXCEPT !.v = val, !.bus = Append(@, Rd(addr, val))]

\* CPU::write_byte (cpu.rs:811-814): the acknowledgement is dropped
write_byte(m, addr, data) ==
    IF m.panic THEN m
    ELSE [m EXCEPT !.layout = Layout_write_byte(m.layout, addr, data).layout,
                   !.bus = Append(@, Wr(addr, data))]

\* A u16 addition without wrapping_add: it panics when overflow checks are
\* compiled in and wraps when they are not.  The sum is left in v.
add_u16(m, p, q) ==
    IF m.panic THEN m
    ELSE IF p + q > 65535 /\ overflow_checks THEN [m EXCEPT !.panic = TRUE]
    ELSE [m EXCEPT !.v = wrap16(p + q)]

\* CPU::read_word (cpu.rs:805-809)
read_word(m, addr) ==
    Bind(read_byte(m, addr), LAMBDA m1 :
    Bind(add_u16(m1, addr, 1), LAMBDA m2 :
    Bind(read_byte(m2, m2.v), LAMBDA m3 :
        IF m3.panic THEN m3 ELSE [m3 EXCEPT !.v = BitOr(m3.v * 256, m1.v)])))

\* get_sp, were the stack to sit in page 0
get_sp_page0(m) == m.sp

\* CPU::get_sp (cpu.rs:656-658)
get_sp(m) == m.sp + 256

\* push_byte, were the stack to grow upwards
push_byte_up(m, data) ==
    [write_byte(m, get_sp(m), data) EXCEPT !.sp = wrap8(m.sp + 1)]

\* CPU::push_byte (cpu.rs:646-649)
push_byte(m, data) ==
    [write_byte(m, get_sp(m), data) EXCEPT !.sp = wrap8(m.sp + 255)]

\* CPU::pull_byte (cpu.rs:651-654)
pull_byte(m) ==
    Bind([m EXCEPT !.sp = wrap8(m.sp + 1)], LAMBDA m1 :
        read_byte(m1, get_sp(m1)))

\* next_byte, were PC to move past two bytes
next_byte_skip2(m) ==
    [read_byte(m, m.pc) EXCEPT !.pc = wrap16(m.pc + 2)]

\* CPU::next_byte (cpu.rs:781-785)
next_byte(m) ==
    [read_byte(m, m.pc) EXCEPT !.pc = wrap16(m.pc + 1)]

\* CPU::next_word (cpu.rs:787-791)
next_word(m) ==
    [read_word(m, m.pc) EXCEPT !.pc = wrap16(m.pc + 2)]

\* check_nz, were Negative left alone
check_nz_zero_only(m, data) == [m EXCEPT !.status.zero = (data = 0)]

\* CPU::check_nz (cpu.rs:641-644) with Register::is_negative / is_zero
check_nz(m, data) ==
    [m EXCEPT !.status.negative = BitAnd(data, 128) > 0,
              !.status.zero = (data = 0)]

\* the offset, were the byte not reinterpreted as signed
as_unsigned(b) == b

\* an i8 read of a byte
as_i8(b) == IF b >= 128 THEN b - 256 ELSE b

\* CPU::read_byte_relative (cpu.rs:660-664): v is the signed offset
read_byte_relative(m) ==
    Bind(next_byte(m), LAMBDA m1 : [m1 EXCEPT !.v = as_i8(m1.v)])

\* unimplemented!()
unimplemented(m) == [m EXCEPT !.panic = TRUE]

\* the read at a resolved address: ea is the address, v the byte there
ReadAt(m, addr) == [read_byte(m, addr) EXCEPT !.ea = addr]

\* CPU::read_byte_addressed (cpu.rs:666-724)
read_byte_addressed(m, mode) ==
    CASE mode = "Immediate" ->
            Bind(next_byte(m), LAMBDA m1 : [m1 EXCEPT !.ea = m1.pc])
      [] mode = "Absolute" ->
            Bind(next_word(m), LAMBDA m1 : ReadAt(m1, m1.v))
      [] mode = "AbsoluteX" ->
            Bind(next_word(m), LAMBDA m1 : ReadAt(m1, wrap16(m1.v + m1.x)))
      [] mode = "AbsoluteY" ->
            Bind(next_word(m), LAMBDA m1 : ReadAt(m1, wrap16(m1.v + m1.y)))
      [] mode = "XIndirect" ->
            Bind(next_byte(m), LAMBDA m1 :
            Bind(read_word(m1, wrap8(m1.v + m1.x)), LAMBDA m2 :
                ReadAt(m2, m2.v)))
      [] mode = "IndirectY" ->
            Bind(next_byte(m), LAMBDA m1 :
            Bind(read_word(m1, m1.v), LAMBDA m2 :
            Bind(add_u16(m2, m2.v, m2.y), LAMBDA m3 :
                ReadAt(m3, m3.v))))
      [] mode = "ZeroPage" ->
            Bind(next_byte(m), LAMBDA m1 : ReadAt(m1, m1.v))
      [] mode = "ZeroPageX" ->
            Bind(next_byte(m), LAMBDA m1 : ReadAt(m1, wrap8(m1.v + m1.x)))
      [] mode = "ZeroPageY" ->
            Bind(next_byte(m), LAMBDA m1 : ReadAt(m1, wrap8(m1.v + m1.y)))
      [] OTHER -> unimplemented(m)

\* CPU::write_byte_addressed (cpu.rs:726-779)
write_byte_addressed(m, data, mode) ==
    CASE mode = "Absolute" ->
            Bind(next_word(m), LAMBDA m1 : write_byte(m1, m1.v, data))
      [] mode = "AbsoluteX" ->
            Bind(next_word(m), LAMBDA m1 : write_byte(m1, wrap16(m1.v + m1.x), data))
      [] mode = "AbsoluteY" ->
            Bind(next_word(m), LAMBDA m1 : write_byte(m1, wrap16(m1.v + m1.y), data))
      [] mode = "XIndirect" ->
            Bind(next_byte(m), LAMBDA m1 :
            Bind(read_word(m1, wrap8(m1.v + m1.x)), LAMBDA m2 :
                write_byte(m2, m2.v, data)))
      [] mode = "IndirectY" ->
            Bind(next_byte(m), LAMBDA m1 :
            Bind(read_word(m1, m1.v), LAMBDA m2 :
            Bind(add_u16(m2, m2.v, m2.y), LAMBDA m3 :
                write_byte(m3, m3.v, data))))
      [] mode = "ZeroPage" ->
            Bind(next_byte(m), LAMBDA m1 : write_byte(m1, m1.v, data))
      [] mode = "ZeroPageX" ->
            Bind(next_byte(m), LAMBDA m1 : write_byte(m1, wrap8(m1.v + m1.x), data))
      [] mode = "ZeroPageY" ->
            Bind(next_byte(m), LAMBDA m1 : write_byte(m1, wrap8(m1.v + m1.y), data))
      [] OTHER -> unimplemented(m)

(***************************************************************************)
(* CPU::step's instruction arms (cpu.rs:124-592).                          *)
(***************************************************************************)
\* a register takes a value and Negative and Zero follow it
SetReg(m, reg, data) == check_nz([m EXCEPT ![reg] = data], data)

\* LDA / LDX / LDY (cpu.rs:125-139)
Load(m, mode, reg) ==
    Bind(read_byte_addressed(m, mode), LAMBDA m1 : SetReg(m1, reg, m1.v))

\* TAX / TAY / TSX / TXA / TYA (cpu.rs:145-179)
Transfer(m, from, to) == SetReg(m, to, m[from])

\* PLA / PLX / PLY (cpu.rs:203-225)
Pull(m, reg) ==
    Bind(pull_byte(m), LAMBDA m1 : SetReg(m1, reg, m1.v))

\* DEC / INC (cpu.rs:227-240, 253-266): on A when Implied, else on memory
IncDec(m, mode, delta) ==
    IF mode = "Implied"
    THEN SetReg(m, "a", wrap8(m.a + delta))
    ELSE Bind(read_byte_addressed(m, mode), LAMBDA m1 :
            check_nz(write_byte(m1, m1.ea, wrap8(m1.v + delta)), wrap8(m1.v + delta)))

\* DEX / DEY / INX / INY (cpu.rs:241-252, 267-278)
IncDecReg(m, reg, delta) == SetReg(m, reg, wrap8(m[reg] + delta))

\* the flags and the accumulator ADC and SBC derive from the 9-bit sum
\* (cpu.rs:286-290, 299-303)
SumToA(m, operand, result) ==
    SetReg([m EXCEPT !.status.carry = result > 255,
                     !.status.overflow =
                         BitAnd(BitAnd(BitXor(result, m.a), BitXor(result, operand)),
                                128) > 0],
           "a", wrap8(result))

\* the sum, were it adjusted to binary-coded decimal when Decimal is set: 6
\* more when the low digits exceed 9, 0x60 more when the high digits then do
AddWithCarry_decimal(m, operand) ==
    Bind(m.a + operand + Bit(m.status.carry), LAMBDA sum :
    Bind(IF m.status.decimal /\ (m.a % 16) + (operand % 16) + Bit(m.status.carry) > 9
         THEN sum + 6 ELSE sum, LAMBDA low :
        SumToA(m, operand, IF m.status.decimal /\ low > 159 THEN low + 96 ELSE low)))

\* the sum, were the carry-in left out
AddWithCarry_no_carry_in(m, operand) == SumToA(m, operand, m.a + operand)

\* the sum ADC and SBC share (cpu.rs:282-284, 295-297)
AddWithCarry(m, operand) == SumToA(m, operand, m.a + operand + Bit(m.status.carry))

\* ADC (cpu.rs:280-292)
ADC(m, mode) ==
    Bind(read_byte_addressed(m, mode), LAMBDA m1 : AddWithCarry(m1, m1.v))

\* SBC, were the operand negated (two's complement) before the sum
SBC_negated(m, mode) ==
    Bind(read_byte_addressed(m, mode), LAMBDA m1 : AddWithCarry(m1, wrap8(256 - m1.v)))

\* SBC (cpu.rs:293-305): ADC of the complemented operand
SBC(m, mode) ==
    Bind(read_byte_addressed(m, mode), LAMBDA m1 : AddWithCarry(m1, BitXor(m1.v, 255)))

\* the byte AND / EOR / ORA leave in A
Logical(inst, p, q) ==
    CASE inst = "AND" -> BitAnd(p, q)
      [] inst = "EOR" -> BitXor(p, q)
      [] inst = "ORA" -> BitOr(p, q)

\* AND / EOR / ORA (cpu.rs:307-324)
Logic(m, mode, inst) ==
    Bind(read_byte_addressed(m, mode), LAMBDA m1 :
        SetReg(m1, "a", Logical(inst, m1.a, m1.v)))

\* the shifted byte and the bit sent to Carry (cpu.rs:331-332, 351-352, 371-373,
\* 393-395)
Shifted(inst, data, carry) ==
    CASE inst = "ASL" -> wrap8(data * 2)
      [] inst = "LSR" -> data \div 2
      [] inst = "ROL" -> BitOr(wrap8(data * 2), Bit(carry))
      [] inst = "ROR" -> BitOr(data \div 2, Bit(carry) * 128)

SendCarry(inst, data) ==
    IF inst \in {"ASL", "ROL"} THEN BitAnd(data, 128) > 0 ELSE BitAnd(data, 1) > 0

\* ASL / LSR / ROL / ROR (cpu.rs:326-409)
Shift(m, mode, inst) ==
    IF mode = "Implied"
    THEN [SetReg(m, "a", Shifted(inst, m.a, m.status.carry))
            EXCEPT !.status.carry = SendCarry(inst, m.a)]
    ELSE Bind(read_byte_addressed(m, mode), LAMBDA r :
            [check_nz(write_byte(r, r.ea, Shifted(inst, r.v, r.status.carry)),
                      Shifted(inst, r.v, r.status.carry))
                EXCEPT !.status.carry = SendCarry(inst, r.v)])

\* CMP / CPX / CPY, were Negative and Zero taken from the register
Compare_flags_of_register(m, mode, reg) ==
    Bind(read_byte_addressed(m, mode), LAMBDA m1 :
        [check_nz(m1, m1[reg]) EXCEPT !.status.carry = m1[reg] >= m1.v])

\* CMP / CPX / CPY (cpu.rs:440-460)
Compare(m, mode, reg) ==
    Bind(read_byte_addressed(m, mode), LAMBDA m1 :
        [check_nz(m1, wrap8(m1[reg] + 256 - m1.v))
            EXCEPT !.status.carry = m1[reg] >= m1.v])

\* (pc as i32 + offset as i32) as u16
RelTarget(p, offset) == wrap16(p + offset + 65536)

\* BCC .. BVS (cpu.rs:467-525); BRA (cpu.rs:462-465) is Branch(m, TRUE)
Branch(m, taken) ==
    Bind(read_byte_relative(m), LAMBDA m1 :
        IF taken THEN [m1 EXCEPT !.pc = RelTarget(m1.pc, m1.v)] ELSE m1)

\* JMP (cpu.rs:527-542)
JMP(m, mode) ==
    CASE mode = "Indirect" ->
            Bind(next_word(m), LAMBDA m1 :
            Bind(read_word(m1, m1.v), LAMBDA m2 : [m2 EXCEPT !.pc = m2.v]))
      [] mode = "Absolute" ->
            Bind(next_word(m), LAMBDA m1 : [m1 EXCEPT !.pc = m1.v])
      [] OTHER -> unimplemented(m)

\* the two pushes of an address, high byte first (cpu.rs:546-547, 96-97,
\* 106-107, 563-564, 79-80)
PushAddr(m, addr) ==
    Bind(push_byte(m, addr \div 256), LAMBDA m1 :
        push_byte(m1, BitAnd(addr, 255)))

\* JSR (cpu.rs:543-551)
JSR(m) ==
    Bind(next_word(m), LAMBDA m1 :
        [PushAddr(m1, wrap16(m1.pc + 65535)) EXCEPT !.pc = m1.v])

\* RTS (cpu.rs:552-559)
RTS(m) ==
    Bind(pull_byte(m), LAMBDA m1 :
    Bind(pull_byte(m1), LAMBDA m2 :
        [m2 EXCEPT !.pc = wrap16(BitOr(m2.v * 256, m1.v) + 1)]))

\* the frame, were the status pushed with Break as the flags have it
PushFrame_live_break(m, ret_addr, brk) ==
    Bind(PushAddr(m, ret_addr), LAMBDA m1 :
        push_byte(m1, StatusToByte(m1.status)))

\* the frame irq, nmi and BRK push: the return address high then low, then
\* the status with Break as given (cpu.rs:96-100, 106-110, 563-567)
PushFrame(m, ret_addr, brk) ==
    Bind(PushAddr(m, ret_addr), LAMBDA m1 :
        push_byte(m1, StatusToByte([m1.status EXCEPT !.break_ = brk])))

\* PC taken from a vector (cpu.rs:82, 102, 111, 569)
LoadVector(m, vector) ==
    Bind(read_word(m, vector), LAMBDA m1 : [m1 EXCEPT !.pc = m1.v])

\* BRK (cpu.rs:561-572)
BRK(m) ==
    Bind(add_u16(m, m.pc, 1), LAMBDA m1 :
    Bind(PushFrame(m1, m1.v, TRUE), LAMBDA m2 :
        LoadVector([m2 EXCEPT !.status.int_disable = TRUE], 65534)))

\* RTI, were it to resume one past the pulled address as RTS does
RTI_increments(m) ==
    Bind(pull_byte(m), LAMBDA m1 :
    Bind(pull_byte([m1 EXCEPT !.status = ByteToStatus(m1.v)]), LAMBDA m2 :
    Bind(pull_byte(m2), LAMBDA m3 :
        [m3 EXCEPT !.pc = wrap16(BitOr(m3.v * 256, m2.v) + 1)])))

\* RTI (cpu.rs:573-580)
RTI(m) ==
    Bind(pull_byte(m), LAMBDA m1 :
    Bind(pull_byte([m1 EXCEPT !.status = ByteToStatus(m1.v)]), LAMBDA m2 :
    Bind(pull_byte(m2), LAMBDA m3 :
        [m3 EXCEPT !.pc = BitOr(m3.v * 256, m2.v)])))

\* BIT (cpu.rs:582-587)
BIT(m, mode) ==
    Bind(read_byte_addressed(m, mode), LAMBDA m1 :
        [m1 EXCEPT !.status.zero = (BitAnd(m1.a, m1.v) = 0),
                   !.status.negative = BitAnd(m1.v, 128) > 0,
                   !.status.overflow = BitAnd(m1.v, 64) > 0])

\* PHP (cpu.rs:186-192)
PHP(m) == push_byte(m, StatusToByte([m.status EXCEPT !.break_ = TRUE]))

\* PLP (cpu.rs:209-213)
PLP(m) ==
    Bind(pull_byte(m), LAMBDA m1 : [m1 EXCEPT !.status = ByteToStatus(m1.v)])

\* the match of CPU::step (cpu.rs:124-592)
Exec(m, inst, mode) ==
    CASE inst = "LDA" -> Load(m, mode, "a")
      [] inst = "LDX" -> Load(m, mode, "x")
      [] inst = "LDY" -> Load(m, mode, "y")
      [] inst = "STA" -> write_byte_addressed(m, m.a, mode)
      [] inst = "STX" -> write_byte_addressed(m, m.x, mode)
      [] inst = "STY" -> write_byte_addressed(m, m.y, mode)
      [] inst = "TAX" -> Transfer(m, "a", "x")
      [] inst = "TAY" -> Transfer(m, "a", "y")
      [] inst = "TSX" -> Transfer(m, "sp", "x")
      [] inst = "TXA" -> Transfer(m, "x", "a")
      [] inst = "TXS" -> [m EXCEPT !.sp = m.x]
      [] inst = "TYA" -> Transfer(m, "y", "a")
      [] inst = "PHA" -> push_byte(m, m.a)
      [] inst = "PHP" -> PHP(m)
      [] inst = "PHX" -> push_byte(m, m.x)
      [] inst = "PHY" -> push_byte(m, m.y)
      [] inst = "PLA" -> Pull(m, "a")
      [] inst = "PLP" -> PLP(m)
      [] inst = "PLX" -> Pull(m, "x")
      [] inst = "PLY" -> Pull(m, "y")
      [] inst = "DEC" -> IncDec(m, mode, 255)
      [] inst = "DEX" -> IncDecReg(m, "x", 255)
      [] inst = "DEY" -> IncDecReg(m, "y", 255)
      [] inst = "INC" -> IncDec(m, mode, 1)
      [] inst = "INX" -> IncDecReg(m, "x", 1)
      [] inst = "INY" -> IncDecReg(m, "y", 1)
      [] inst = "ADC" -> ADC(m, mode)
      [] inst = "SBC" -> SBC(m, mode)
      [] inst \in {"AND", "EOR", "ORA"} -> Logic(m, mode, inst)
      [] inst \in {"ASL", "LSR", "ROL", "ROR"} -> Shift(m, mode, inst)
      [] inst = "CLC" -> [m EXCEPT !.status.carry = FALSE]
      [] inst = "CLD" -> [m EXCEPT !.status.decimal = FALSE]
      [] inst = "CLI" -> [m EXCEPT !.status.int_disable = FALSE]
      [] inst = "CLV" -> [m EXCEPT !.status.overflow = FALSE]
      [] inst = "SEC" -> [m EXCEPT !.status.carry = TRUE]
      [] inst = "SED" -> [m EXCEPT !.status.decimal = TRUE]
      [] inst = "SEI" -> [m EXCEPT !.status.int_disable = TRUE]
      [] inst = "CMP" -> Compare(m, mode, "a")
      [] inst = "CPX" -> Compare(m, mode, "x")
      [] inst = "CPY" -> Compare(m, mode, "y")
      [] inst = "BRA" -> Branch(m, TRUE)
      [] inst = "BCC" -> Branch(m, ~m.status.carry)
      [] inst = "BCS" -> Branch(m, m.status.carry)
      [] inst = "BNE" -> Branch(m, ~m.status.zero)
      [] inst = "BEQ" -> Branch(m, m.status.zero)
      [] inst = "BPL" -> Branch(m, ~m.status.negative)
      [] inst = "BMI" -> Branch(m, m.status.negative)
      [] inst = "BVC" -> Branch(m, ~m.status.overflow)
      [] inst = "BVS" -> Branch(m, m.status.overflow)
      [] inst = "JMP" -> JMP(m, mode)
      [] inst = "JSR" -> JSR(m)
      [] inst = "RTS" -> RTS(m)
      [] inst = "BRK" -> BRK(m)
      [] inst = "RTI" -> RTI(m)
      [] inst = "BIT" -> BIT(m, mode)
      [] inst = "NOP" -> m

\* the dispatch of CPU::step on what decode_inst returned (cpu.rs:119-124, 598)
Dispatch(m, d) ==
    IF ~d.some THEN [m |-> m, res |-> <<"UnknownInst", m.v>>]
    ELSE [m |-> Exec(m, d.v[1], d.v[2]), res |-> <<"Ok">>]

\* CPU::step (cpu.rs:114-599): m is the CPU after the call, res what it returns
step(m) ==
    Bind(next_byte(m), LAMBDA m1 :
    Bind(Decode(m1.v), LAMBDA d : Dispatch(m1, d)))

\* irq, were it to ignore Interrupt-disable
irq_unmasked(m) ==
    Bind(PushFrame(m, m.pc, FALSE), LAMBDA m1 :
        LoadVector([m1 EXCEPT !.status.int_disable = TRUE], 65534))

\* CPU::irq (cpu.rs:89-103)
irq(m) ==
    IF m.status.int_disable THEN m
    ELSE Bind(PushFrame(m, m.pc, FALSE), LAMBDA m1 :
            LoadVector([m1 EXCEPT !.status.int_disable = TRUE], 65534))

\* nmi, were it to honour Interrupt-disable
nmi_masked(m) ==
    IF m.status.int_disable THEN m
    ELSE Bind(PushFrame(m, m.pc, FALSE), LAMBDA m1 : LoadVector(m1, 65530))

\* CPU::nmi (cpu.rs:105-112)
nmi(m) ==
    Bind(PushFrame(m, m.pc, FALSE), LAMBDA m1 : LoadVector(m1, 65530))

\* reset, were Y left as it is
reset_keeps_y(m) ==
    Bind([m EXCEPT !.hooks = Layout_reset(m.layout), !.status = StatusDefault,
                   !.a = 0, !.x = 0, !.sp = 255],
         LAMBDA m0 :
    Bind(PushAddr(m0, m0.pc), LAMBDA m1 :
    Bind(push_byte(m1, StatusToByte(m1.status)), LAMBDA m2 :
        LoadVector(m2, 65532))))

\* CPU::reset (cpu.rs:70-83); the devices' reset hooks leave RAM and ROM as
\* they are
reset(m) ==
    Bind([m EXCEPT !.hooks = Layout_reset(m.layout), !.status = StatusDefault,
                   !.a = 0, !.x = 0, !.y = 0, !.sp = 255],
         LAMBDA m0 :
    Bind(PushAddr(m0, m0.pc), LAMBDA m1 :
    Bind(push_byte(m1, StatusToByte(m1.status)), LAMBDA m2 :
        LoadVector(m2, 65532))))

(***************************************************************************)
(* Spec: a host that builds a layout, loads a program image into its       *)
(* devices, constructs the CPU over it and drives it.                      *)
(***************************************************************************)
\* u16::MAX, the bound CPU::new compares the layout's size with
U16_MAX == 65535

\* the vectors read_word is called on (cpu.rs:82, 102, 111, 569)
RESET_VECTOR == 65532
IRQ_VECTOR == 65534
NMI_VECTOR == 65530

\* Where the host's programs put a JSR and its target.
JsrSites == {<<\h1000, \h2000>>, <<\hFFFD, \h2000>>, <<\hFFFE, \h2000>>,
             <<\hFFFF, \h2000>>, <<\h1000, \hFFFF>>}

\* A program: bytes poked at virtual addresses, later pokes over earlier ones.
\* At 0x0300 a byte that does not decode; from 0x0301 LDA #$C3, LDX #$07,
\* LDY #$81, SEC, SED, PHA, SEI and a second byte that does not decode; RTI
\* at the IRQ and NMI handlers; the three vectors; and JSR t at p, RTS at t.
Pokes(p, t) ==
    << <<\h0300, \h02>>,
       <<\h0301, \hA9>>, <<\h0302, \hC3>>,
       <<\h0303, \hA2>>, <<\h0304, \h07>>,
       <<\h0305, \hA0>>, <<\h0306, \h81>>,
       <<\h0307, \h38>>, <<\h0308, \hF8>>, <<\h0309, \h48>>,
       <<\h030A, \h78>>, <<\h030B, \hFF>>,
       <<\h0400, \h40>>, <<\h0500, \h40>>,
       <<NMI_VECTOR, \h00>>, <<NMI_VECTOR + 1, \h05>>,
       <<RESET_VECTOR, \h01>>, <<RESET_VECTOR + 1, \h03>>,
       <<IRQ_VECTOR, \h00>>, <<IRQ_VECTOR + 1, \h04>>,
       <<t, \h60>>,
       <<p, \h20>>, <<wrap16(p + 1), t % 256>>, <<wrap16(p + 2), t \div 256>> >>

Image(p, t) ==
    LET pk == Pokes(p, t) IN
    [c \in {pk[i][1] : i \in DOMAIN pk} |->
        pk[Max({i \in DOMAIN pk : pk[i][1] = c})][2]]

\* The image's bytes that fall into device k of layout l, at the device's
\* own offsets: what the host hands to load_bytes before add_memory.
DeviceImage(l, k, img) ==
    LET mine == {c \in DOMAIN img :
                    /\ get_mapping_at_addr(l, c).some
                    /\ get_mapping_at_addr(l, c).v.mem_id = k - 1
                    /\ Translate(get_mapping_at_addr(l, c).v, c) < l.mems[k].cap}
    IN [o \in {Translate(get_mapping_at_addr(l, c).v, c) : c \in mine} |->
            img[CHOOSE c \in mine : Translate(get_mapping_at_addr(l, c).v, c) = o]]

Loaded(l, img) ==
    [l EXCEPT !.mems = [k \in DOMAIN l.mems |-> load_bytes(l.mems[k], DeviceImage(l, k, img))]]

\* The layouts build() returns for the hosts' configurations: RAM below ROM
\* (tbo2_msbasic), one RAM, and spaces one short of, two short of and one
\* beyond the 6502's 65,536 addresses.
RamRom(ramcap, romcap) ==
    [byte_cnt |-> ramcap + romcap,
     mems |-> <<RAM(ramcap), ROM(romcap)>>,
     mappings |-> (0 :> Mapping(0, 0, 0)) @@ (ramcap :> Mapping(ramcap, 0, 1))]

OneRam(cap) ==
    [byte_cnt |-> cap, mems |-> <<RAM(cap)>>, mappings |-> (0 :> Mapping(0, 0, 0))]

\* RAM<0x8000> assigned to the first and to the last quarter of the space and
\* ROM<0x8000> to the half between them: the RAM's second run starts where
\* its first one ended in the device
SplitRam ==
    [byte_cnt |-> \h10000,
     mems |-> <<RAM(\h8000), ROM(\h8000)>>,
     mappings |-> (0 :> Mapping(0, 0, 0)) @@ (\h4000 :> Mapping(\h4000, 0, 1))
                    @@ (\hC000 :> Mapping(\hC000, \h4000, 0))]

HostLayouts ==
    {Loaded(RamRom(\h8000, \h8000), Image(s[1], s[2])) : s \in JsrSites}
    \cup {Loaded(OneRam(\h10000), Image(s[1], s[2])) : s \in JsrSites}
    \cup {Loaded(RamRom(\h8000, \h7FFF), Image(\h1000, \h2000)),
          Loaded(RamRom(\h8000, \h7FFE), Image(\h1000, \h2000)),
          Loaded(OneRam(\h10001), Image(\h1000, \h2000))}

\* where the host points the CPU with set_pc
EntryPoints == {\h0300, \h0307, \h1000, \hFFFD, \hFFFE, \hFFFF}

NoCall == [call |-> "none", val |-> <<>>]

Init ==
    /\ max_byte_cnt = 0 /\ mems = <<>> /\ mappings = <<>> /\ built = NotBuilt
    /\ serial = NoSerial
    /\ phase = "unbuilt"
    /\ layout \in HostLayouts
    /\ attached = FALSE
    /\ pc = 0 /\ sp = 0 /\ a = 0 /\ x = 0 /\ y = 0
    /\ status = StatusDefault
    /\ ret = NoCall
    /\ bus = <<>>
    /\ hooks = <<>>
    /\ overflow_checks \in BOOLEAN
    /\ ncalls = 0

\* whether CPU::new takes the layout (cpu.rs:50-52)
new_accepts(l) == ~(l.byte_cnt < U16_MAX)

\* CPU::new, were it to leave the layout unattached
New_without_attach ==
    /\ phase = "unbuilt"
    /\ IF new_accepts(layout)
       THEN /\ phase' = "running"
            /\ ret' = [call |-> "new", val |-> <<"Some">>]
       ELSE /\ phase' = "none"
            /\ ret' = [call |-> "new", val |-> <<"None">>]
    /\ attached' = FALSE
    /\ hooks' = <<>>
    /\ pc' = 0 /\ sp' = 0 /\ a' = 0 /\ x' = 0 /\ y' = 0
    /\ status' = StatusDefault
    /\ bus' = <<>>
    /\ UNCHANGED <<layout, overflow_checks, ncalls>>
    /\ UNCHANGED lbVars
    /\ UNCHANGED devVars

\* CPU::new (cpu.rs:49-68)
New ==
    /\ phase = "unbuilt"
    /\ IF new_accepts(layout)
       THEN /\ phase' = "running"
            /\ attached' = TRUE
            /\ hooks' = Layout_attach(layout)
            /\ ret' = [call |-> "new", val |-> <<"Some">>]
       ELSE /\ phase' = "none"
            /\ attached' = FALSE
            /\ hooks' = <<>>
            /\ ret' = [call |-> "new", val |-> <<"None">>]
    /\ pc' = 0 /\ sp' = 0 /\ a' = 0 /\ x' = 0 /\ y' = 0
    /\ status' = StatusDefault
    /\ bus' = <<>>
    /\ UNCHANGED <<layout, overflow_checks, ncalls>>
    /\ UNCHANGED lbVars
    /\ UNCHANGED devVars

\* the CPU as the call finds it
Machine ==
    [pc |-> pc, sp |-> sp, a |-> a, x |-> x, y |-> y, status |-> status,
     layout |-> layout, bus |-> <<>>, hooks |-> <<>>, v |-> 0, ea |-> 0,
     panic |-> FALSE]

\* A host call ends: the CPU is as the call left it, or the call panicked and
\* the CPU is gone.
Return(m, call, val) ==
    /\ ncalls' = ncalls + 1
    /\ bus' = m.bus
    /\ hooks' = m.hooks
    /\ IF m.panic
       THEN /\ phase' = "panicked"
            /\ ret' = [call |-> call, val |-> <<"panic">>]
            /\ UNCHANGED <<pc, sp, a, x, y, status, layout>>
       ELSE /\ phase' = "running"
            /\ ret' = [call |-> call, val |-> val]
            /\ pc' = m.pc /\ sp' = m.sp /\ a' = m.a /\ x' = m.x /\ y' = m.y
            /\ status' = m.status
            /\ layout' = m.layout
    /\ UNCHANGED <<attached, overflow_checks>>
    /\ UNCHANGED lbVars
    /\ UNCHANGED devVars

CanCall == phase = "running" /\ ncalls < MaxCalls

Step ==
    /\ CanCall
    /\ \E r \in {step(Machine)} : Return(r.m, "step", r.res)

Irq ==
    /\ CanCall
    /\ \E m \in {irq(Machine)} :
          Return(m, "irq", <<IF status.int_disable THEN "ignored" ELSE "taken">>)

Nmi ==
    /\ CanCall
    /\ \E m \in {nmi(Machine)} : Return(m, "nmi", <<>>)

Reset ==
    /\ CanCall
    /\ \E m \in {reset(Machine)} : Return(m, "reset", <<>>)

\* CPU::set_pc (cpu.rs:816-818)
SetPc ==
    /\ CanCall
    /\ \E e \in EntryPoints :
          \E m \in {[Machine EXCEPT !.pc = e]} : Return(m, "set_pc", <<e>>)

\* Drop for CPU (cpu.rs:41-45): the host lets go of the CPU, or a panic
\* unwinds through the CPU's owner
Drop ==
    /\ phase \in {"running", "panicked"}
    /\ phase' = "dropped"
    /\ attached' = FALSE
    /\ hooks' = Layout_detach(layout)
    /\ ret' = [call |-> "drop", val |-> <<>>]
    /\ bus' = <<>>
    /\ UNCHANGED <<layout, pc, sp, a, x, y, status, overflow_checks, ncalls>>
    /\ UNCHANGED lbVars
    /\ UNCHANGED devVars

Next == New \/ Step \/ Irq \/ Nmi \/ Reset \/ SetPc \/ Drop

Spec == Init /\ [][Next]_vars

(***************************************************************************)
(* Programs run to their end: the host's loop (main.rs:23-28) calls step() *)
(* until it returns an error.  Every program below ends in the byte 0x02,  *)
(* which does not decode.                                                  *)
(***************************************************************************)
\* one RAM over the whole space holding the given bytes
RamWith(img) == [OneRam(\h10000) EXCEPT !.mems = <<load_bytes(RAM(\h10000), img)>>]

\* a CPU the host has constructed and pointed at entry, its registers as given
Started(l, entry, s0, a0, x0, y0, st) ==
    /\ max_byte_cnt = 0 /\ mems = <<>> /\ mappings = <<>> /\ built = NotBuilt
    /\ serial = NoSerial
    /\ phase = "running"
    /\ attached = TRUE
    /\ layout = l
    /\ pc = entry /\ sp = s0 /\ a = a0 /\ x = x0 /\ y = y0
    /\ status = st
    /\ ret = NoCall
    /\ bus = <<>>
    /\ hooks = <<>>
    /\ overflow_checks \in BOOLEAN
    /\ ncalls = 0

\* the host's loop: step() until it returns an error
Run ==
    /\ phase = "running"
    /\ ncalls < MaxRun
    /\ ~(ret.call = "step" /\ ret.val[1] = "UnknownInst")
    /\ \E r \in {step(Machine)} : Return(r.m, "step", r.res)

(***************************************************************************)
(* SpecStack: TSX, 256 PHA, two PLA, with interrupts and resets arriving   *)
(* during the first calls; the handlers are a lone RTI.                    *)
(***************************************************************************)
StackProgram ==
    [c \in (\h0600..\h0703) \cup {\h0400, \h0500} \cup (NMI_VECTOR..65535) |->
        CASE c = \h0600 -> \hBA
          [] c \in \h0601..\h0700 -> \h48
          [] c \in \h0701..\h0702 -> \h68
          [] c = \h0703 -> \h02
          [] c \in {\h0400, \h0500} -> \h40
          [] c = NMI_VECTOR + 1 -> \h05
          [] c = RESET_VECTOR + 1 -> \h06
          [] c = IRQ_VECTOR + 1 -> \h04
          [] OTHER -> 0]

\* where the host leaves SP before the program starts
StackBases == {0, 1, 255}

InitStack ==
    \E s0 \in StackBases :
        Started(RamWith(StackProgram), \h0600, s0, \h5A, 0, 0, StatusDefault)

NextStack == Run \/ Irq \/ Nmi \/ Reset

SpecStack == InitStack /\ [][NextStack]_vars

(***************************************************************************)
(* SpecBus: a host reading and writing bytes through CPU::read_byte and    *)
(* CPU::write_byte.                                                        *)
(***************************************************************************)
\* RAM below ROM, ROM below RAM, one RAM, and a RAM in two windows with a ROM
\* between them
BusLayouts ==
    {Loaded(RamRom(\h8000, \h8000), Image(\h1000, \h2000)),
     Loaded([RamRom(\h8000, \h8000) EXCEPT !.mems = <<ROM(\h8000), RAM(\h8000)>>],
            Image(\h1000, \h2000)),
     Loaded(OneRam(\h10000), Image(\h1000, \h2000)),
     Loaded(SplitRam, Image(\h1000, \h2000))}

BusAddrs == {\h0000, \h7FFF, \h8000, \hFFFF}
BusBytes == {\h00, \hA5, \hFF}

InitBus ==
    \E l \in BusLayouts : Started(l, 0, 0, 0, 0, 0, StatusDefault)

\* the host calls CPU::write_byte(addr, data)
WriteByte ==
    /\ CanCall
    /\ \E addr \in BusAddrs, data \in BusBytes :
          \E m \in {write_byte(Machine, addr, data)} :
              Return(m, "write_byte", <<addr, data>>)

\* the host calls CPU::read_byte(addr)
ReadByte ==
    /\ CanCall
    /\ \E addr \in BusAddrs :
          \E m \in {read_byte(Machine, addr)} :
              Return(m, "read_byte", <<addr, m.v>>)

NextBus == WriteByte \/ ReadByte

SpecBus == InitBus /\ [][NextBus]_vars

(***************************************************************************)
(* SpecAdc, SpecSbc: ADC #m, SBC #m at 0x0600, for every accumulator,     *)
(* operand and carry-in.                                                   *)
(***************************************************************************)
\* an instruction of up to two bytes at 0x0600, then the byte that ends the run
At0600(opcode, operand) == (\h0600 :> opcode) @@ (\h0601 :> operand) @@ (\h0602 :> \h02)

InitAlu(opcode) ==
    \E a0 \in Byte, operand \in Byte, c \in BOOLEAN :
        Started(RamWith(At0600(opcode, operand)), \h0600, \hFF, a0, 0, 0,
                [StatusDefault EXCEPT !.carry = c])

InitAdc == InitAlu(\h69)

SpecAdc == InitAdc /\ [][Run]_vars

InitSbc == InitAlu(\hE9)

SpecSbc == InitSbc /\ [][Run]_vars

(***************************************************************************)
(* SpecCmp: CMP #m for every A and m, CPX #m and CPY #m for the values at  *)
(* the edges, the flags all clear or N, Z, C all set beforehand.           *)
(***************************************************************************)
CmpEdges == {\h00, \h01, \h10, \h20, \h7F, \h80, \hFF}

\* the register the opcode compares and the values the other two hold
CmpRegs(opcode, r) ==
    CASE opcode = \hC9 -> [a |-> r, x |-> \h33, y |-> \h44]
      [] opcode = \hE0 -> [a |-> \h22, x |-> r, y |-> \h44]
      [] opcode = \hC0 -> [a |-> \h22, x |-> \h33, y |-> r]

CmpStatuses ==
    {StatusDefault,
     [StatusDefault EXCEPT !.negative = TRUE, !.zero = TRUE, !.carry = TRUE]}

InitCmp ==
    \E opcode \in {\hC9, \hE0, \hC0}, r \in Byte, operand \in Byte, st \in CmpStatuses :
        /\ opcode = \hC9 \/ (r \in CmpEdges /\ operand \in CmpEdges)
        /\ Started(RamWith(At0600(opcode, operand)), \h0600, \hFF,
                   CmpRegs(opcode, r).a, CmpRegs(opcode, r).x, CmpRegs(opcode, r).y, st)

SpecCmp == InitCmp /\ [][Run]_vars

(***************************************************************************)
(* SpecBranch: each of the eight conditional branches, at sites in the     *)
(* middle and at both ends of the address space, with every offset byte,   *)
(* N, V, Z, C all clear or all set.                                        *)
(***************************************************************************)
BranchOpcodes == {\h90, \hB0, \hD0, \hF0, \h10, \h30, \h50, \h70}

BranchSites == {\h0010, \h0600, \hFFF0, \hFFFE, \hFFFF}

\* the branch at site, and the byte that ends the run where it can land
BranchProgram(site, opcode, offset) ==
    (site :> opcode) @@ (wrap16(site + 1) :> offset)
        @@ (wrap16(site + 2) :> \h02)
        @@ (wrap16(site + 2 + as_i8(offset) + 65536) :> \h02)

BranchStatuses ==
    {StatusDefault,
     [StatusDefault EXCEPT !.negative = TRUE, !.overflow = TRUE,
                           !.zero = TRUE, !.carry = TRUE]}

InitBranch ==
    \E site \in BranchSites, opcode \in BranchOpcodes, offset \in Byte,
       st \in BranchStatuses :
        Started(RamWith(BranchProgram(site, opcode, offset)), site, \hFF,
                \h11, \h22, \h33, st)

SpecBranch == InitBranch /\ [][Run]_vars

(***************************************************************************)
(* SpecBrk: BRK in the middle of memory, before a page boundary and in the *)
(* last three bytes of the address space.                                  *)
(***************************************************************************)
BrkSites == {\h0600, \h06FF, \hFFFD, \hFFFE, \hFFFF}

\* The handler the IRQ/BRK vector names: a BRK in 0xFFFF is the vector's high
\* byte, one in 0xFFFE its low byte.
BrkHandler(site) == IF site = \hFFFF THEN \h0040 ELSE \h0400

BrkProgram(site) ==
    (site :> \h00) @@ (BrkHandler(site) :> \h02)
        @@ (IRQ_VECTOR :> BrkHandler(site) % 256)
        @@ (IRQ_VECTOR + 1 :> BrkHandler(site) \div 256)

BrkStatuses ==
    {StatusDefault,
     [StatusDefault EXCEPT !.carry = TRUE, !.decimal = TRUE],
     [StatusDefault EXCEPT !.negative = TRUE, !.zero = TRUE, !.int_disable = TRUE],
     [StatusDefault EXCEPT !.overflow = TRUE, !.break_ = TRUE]}

InitBrk ==
    \E site \in BrkSites, s0 \in {\h00, \h01, \hFF}, st \in BrkStatuses :
        Started(RamWith(BrkProgram(site)), site, s0, \h11, \h22, \h33, st)

SpecBrk == InitBrk /\ [][Run]_vars

(***************************************************************************)
(* SpecNz: one step of an instruction of each class, on values at the      *)
(* edges, with Negative, Zero and Carry in every combination beforehand.   *)
(***************************************************************************)
\* LDA/LDX/LDY #, TAX TAY TSX TXA TYA, PLA, AND/EOR/ORA #, INX INY DEX DEY,
\* INC/DEC zp, ASL/LSR/ROL/ROR on A and on zp
NzSetters ==
    {\hA9, \hA2, \hA0, \hAA, \hA8, \hBA, \h8A, \h98, \h68, \h29, \h49, \h09,
     \hE8, \hC8, \hCA, \h88, \hE6, \hC6, \h0A, \h4A, \h2A, \h6A, \h06, \h46,
     \h26, \h66}

\* STA/STX/STY zp, TXS, PHA, PHP, CLC CLD CLI CLV SEC SED SEI, the eight
\* branches, JMP absolute and indirect, JSR, RTS, NOP
NzKeepers ==
    {\h85, \h86, \h84, \h9A, \h48, \h08, \h18, \hD8, \h58, \hB8, \h38, \hF8,
     \h78, \h90, \hB0, \hD0, \hF0, \h10, \h30, \h50, \h70, \h4C, \h6C, \h20,
     \h60, \hEA}

NzValues == {\h00, \h01, \h7F, \h80, \hFF}

\* The instruction at 0x0600 with operand byte w (0x07 after it, for the
\* absolute modes), v in zero-page cell w, and w on top of a stack whose
\* pointer is v.
NzProgram(opcode, v, w) ==
    (\h0600 :> opcode) @@ (\h0601 :> w) @@ (\h0602 :> \h07)
        @@ (w :> v) @@ (256 + ((v + 1) % 256) :> w)

NzStatuses ==
    {[StatusDefault EXCEPT !.negative = n, !.zero = z, !.carry = c] :
        n \in BOOLEAN, z \in BOOLEAN, c \in BOOLEAN}

InitNz ==
    \E opcode \in NzSetters \cup NzKeepers, v \in NzValues, w \in NzValues,
       st \in NzStatuses :
        Started(RamWith(NzProgram(opcode, v, w)), \h0600, v, v, v, v, st)

\* the host calls step() once
StepOnce ==
    /\ phase = "running"
    /\ ncalls = 0
    /\ \E r \in {step(Machine)} : Return(r.m, "step", r.res)

SpecNz == InitNz /\ [][StepOnce]_vars

(***************************************************************************)
(* SpecStatus: PHP then PLP from every combination of the seven flags, and *)
(* PLP then PHP from every byte on top of the stack.                       *)
(***************************************************************************)
AllStatuses ==
    [negative : BOOLEAN, overflow : BOOLEAN, break_ : BOOLEAN, decimal : BOOLEAN,
     int_disable : BOOLEAN, zero : BOOLEAN, carry : BOOLEAN]

\* two one-byte instructions at 0x0600, then the byte that ends the run, and
\* byte b where a pull with SP = s0 finds it
StatusProgram(first, second, s0, b) ==
    (\h0600 :> first) @@ (\h0601 :> second) @@ (\h0602 :> \h02)
        @@ (256 + ((s0 + 1) % 256) :> b)

InitStatus ==
    \E s0 \in {\h00, \h7F, \hFF} :
        \/ \E st \in AllStatuses :
              Started(RamWith(StatusProgram(\h08, \h28, s0, 0)), \h0600, s0,
                      \h11, \h22, \h33, st)
        \/ \E b \in Byte :
              Started(RamWith(StatusProgram(\h28, \h08, s0, b)), \h0600, s0,
                      \h11, \h22, \h33, StatusDefault)

SpecStatus == InitStatus /\ [][Run]_vars

(***************************************************************************)
(* SpecDecode: the host hands each of the 256 bytes to decode_inst.        *)
(***************************************************************************)
InitDecode ==
    \E b \in Byte :
        Started(RamWith(\h0600 :> b), \h0600, \hFF, 0, 0, 0, StatusDefault)

\* decode_inst(byte) on the byte PC points at
DecodeInst ==
    /\ phase = "running"
    /\ ncalls = 0
    /\ \E d \in {decode_inst(Layout_read_byte(layout, pc).v)} :
          ret' = [call |-> "decode_inst",
                  val |-> IF d.some THEN <<"Some", d.v[1], d.v[2]>> ELSE <<"None">>]
    /\ ncalls' = ncalls + 1
    /\ UNCHANGED <<phase, layout, attached, pc, sp, a, x, y, status, bus, hooks,
                   overflow_checks>>
    /\ UNCHANGED lbVars
    /\ UNCHANGED devVars

SpecDecode == InitDecode /\ [][DecodeInst]_vars

(***************************************************************************)
(* SpecReset: reset() and step() in any order, from registers, flags, PC   *)
(* and SP the host finds the CPU with.                                     *)
(***************************************************************************)
\* the host's program in RAM below ROM, in one RAM, in ROM below RAM (the
\* stack's page refuses writes) and in a RAM in two windows around a ROM
ResetLayouts ==
    {Loaded(RamRom(\h8000, \h8000), Image(\h1000, \h2000)),
     Loaded(OneRam(\h10000), Image(\h1000, \h2000)),
     Loaded([RamRom(\h8000, \h8000) EXCEPT !.mems = <<ROM(\h8000), RAM(\h8000)>>],
            Image(\h1000, \h2000)),
     Loaded(SplitRam, Image(\h1000, \h2000))}

ResetPcs == {\h0000, \h0301, \h12FF, \hFFFF}
ResetSps == {\h00, \h02, \hFD, \hFF}
ResetRegs == {\h00, \h80, \hFF}

ResetStatuses ==
    {StatusDefault,
     [StatusDefault EXCEPT !.carry = TRUE, !.decimal = TRUE, !.break_ = TRUE],
     [negative |-> TRUE, overflow |-> TRUE, break_ |-> TRUE, decimal |-> TRUE,
      int_disable |-> TRUE, zero |-> TRUE, carry |-> TRUE]}

InitReset ==
    \E l \in ResetLayouts, p \in ResetPcs, s0 \in ResetSps, r \in ResetRegs,
       st \in ResetStatuses :
        Started(l, p, s0, r, (r + 1) % 256, (r + 2) % 256, st)

NextReset == Reset \/ Step

SpecReset == InitReset /\ [][NextReset]_vars

(***************************************************************************)
(* SpecRefuse: programs that read and write where the layout refuses: a    *)
(* device that answers no read and no write at 0x4000-0x7FFF, a ROM from   *)
(* 0x8000, RAM below.                                                      *)
(***************************************************************************)
\* LDA, ADC, CMP, BIT, STA, INC, ASL, JMP () on the device's first cell and on
\* the ROM's first cell, each followed by the byte that ends the run
RefuseOpcodes == {\hAD, \h6D, \hCD, \h2C, \h8D, \hEE, \h0E, \h6C}

RefuseTargets == {\h4000, \h8000}

\* The instruction at 0x0600; the ROM holds v in its first cell, 0x06 in its
\* second (so JMP (0x8000) lands on 0x0600 + v) and the IRQ/BRK vector 0x0610,
\* where the run ends as it does at every place a jump can land on.
RefuseImage(opcode, target, v) ==
    (\h0600 :> opcode) @@ (\h0601 :> target % 256) @@ (\h0602 :> target \div 256)
        @@ (\h0603 :> \h02) @@ (\h0600 + v :> \h02) @@ (\h0610 :> \h02)
        @@ (\h8000 :> v) @@ (\h8001 :> \h06)
        @@ (IRQ_VECTOR :> \h10) @@ (IRQ_VECTOR + 1 :> \h06)

RefusingLayout ==
    [byte_cnt |-> \h10000,
     mems |-> <<RAM(\h4000), BareDevice(\h4000), ROM(\h8000)>>,
     mappings |-> (0 :> Mapping(0, 0, 0)) @@ (\h4000 :> Mapping(\h4000, 0, 1))
                    @@ (\h8000 :> Mapping(\h8000, 0, 2))]

RefuseValues == {\h04, \h7F, \h80, \hFF}

\* the program starts at 0x0600, or at 0x4000 where no read is answered
InitRefuse ==
    \E opcode \in RefuseOpcodes, target \in RefuseTargets, v \in RefuseValues,
       a0 \in {\h00, \h55, \hFF}, c \in BOOLEAN, entry \in {\h0600, \h4000} :
        Started(Loaded(RefusingLayout, RefuseImage(opcode, target, v)), entry,
                \hFF, a0, 0, 0, [StatusDefault EXCEPT !.carry = c])

SpecRefuse == InitRefuse /\ [][Run]_vars

(***************************************************************************)
(* SpecAdvance: one step of every instruction that does not transfer       *)
(* control, in the middle of memory and in the last three bytes of the     *)
(* address space.                                                          *)
(***************************************************************************)
\* every opcode that decodes, but for JMP, JSR, RTS, RTI and BRK
AdvanceOpcodes ==
    {b \in Byte : Decode(b).some /\ Decode(b).v[1] \notin {"JMP", "JSR", "RTS", "RTI", "BRK"}}

AdvanceSites == {\h0600, \hFFFD, \hFFFE, \hFFFF}

\* The instruction at site with operand bytes lo and 0x20, and a pointer in
\* the zero-page cells 0x10/0x11.
AdvanceImage(site, opcode, lo, ptr) ==
    (site :> opcode) @@ (wrap16(site + 1) :> lo) @@ (wrap16(site + 2) :> \h20)
        @@ (\h10 :> ptr % 256) @@ (\h11 :> ptr \div 256)

InitAdvance ==
    \E opcode \in AdvanceOpcodes, site \in AdvanceSites, lo \in {\h10, \hFE},
       ptr \in {\h3000, \hFFF0}, r \in {\h00, \hFF}, st \in BranchStatuses :
        Started(RamWith(AdvanceImage(site, opcode, lo, ptr)), site, \hFF,
                \h5A, r, r, st)

SpecAdvance == InitAdvance /\ [][StepOnce]_vars

(***************************************************************************)
(* SpecDecimal: one step of ADC #m and of SBC #m with Decimal set, for     *)
(* every accumulator, operand and carry-in.                                *)
(***************************************************************************)
\* The build is the one with overflow checks: a step that returns shows that
\* no addition overflowed, so the build without them leaves the same values.
InitDecimal ==
    \E opcode \in {\h69, \hE9}, a0 \in Byte, operand \in Byte, c \in BOOLEAN :
        /\ Started(RamWith(At0600(opcode, operand)), \h0600, \hFF, a0, 0, 0,
                   [StatusDefault EXCEPT !.carry = c, !.decimal = TRUE])
        /\ overflow_checks

SpecDecimal == InitDecimal /\ [][StepOnce]_vars

(***************************************************************************)
(* SpecJmp: one step of JMP $q and of JMP ($q), in the middle of memory    *)
(* and in the last three bytes of the address space, with pointers inside  *)
(* a page, in a page's last byte and in the last bytes of memory.          *)
(***************************************************************************)
JmpSites == {\h0600, \hFFFD, \hFFFE}

JmpPointers == {\h0000, \h00FF, \h02FF, \h2000, \h20FF, \hFFFE, \hFFFF}

\* The jump at site with operand q, the bytes lo and hi at q and q + 1, and
\* another byte at the start of q's page.
JmpImage(site, opcode, q, lo, hi) ==
    (site :> opcode) @@ (wrap16(site + 1) :> q % 256) @@ (wrap16(site + 2) :> q \div 256)
        @@ (q :> lo) @@ (wrap16(q + 1) :> hi) @@ ((q \div 256) * 256 :> \h77)

InitJmp ==
    \E opcode \in {\h4C, \h6C}, site \in JmpSites, q \in JmpPointers,
       lo \in {\h00, \h34, \hFF}, hi \in {\h12, \h80} :
        Started(RamWith(JmpImage(site, opcode, q, lo, hi)), site, \hFF, 0, 0, 0,
                StatusDefault)

SpecJmp == InitJmp /\ [][StepOnce]_vars

(***************************************************************************)
(* SpecSerial: one SerialIO over a stream, driven by the host thread that  *)
(* owns it (attach, read, write, reset, detach) next to the threads that   *)
(* attach spawns and the far end of the stream.                            *)
(***************************************************************************)
SerialBytes == {\h0D, \h41}

\* What S::read does when the stream holds no input: it reports the end of
\* the stream with Ok(0) (a file, a Cursor, a closed pipe), fails with
\* WouldBlock (a non-blocking socket), or waits for input (a terminal, a pipe).
StreamModes == {"eof", "nonblocking", "blocking"}

\* Who calls the device: the engine (CPU::new attaches once, step and reset
\* read, write and reset, Drop detaches and nothing follows), or any holder
\* of the SerialIO, free to make every call in every order.
Hosts == {"engine", "free"}

\* SerialIO::new (serial.rs:16-23) over a stream that holds input.  The
\* build either turns the call in read's tail position into a jump or gives
\* it a stack frame.  written and out are the bytes handed to write() and
\* the bytes the stream took since the last reset().
SerialIO_new(host, mode, input, tail_calls) ==
    [host |-> host, mode |-> mode, input |-> input, arrived |-> Len(input),
     out |-> <<>>, written |-> <<>>,
     s_lock |-> "free", detached |-> TRUE, read_keys |-> <<>>,
     display_keys |-> <<>>, dk_lock |-> 0,
     rd |-> "idle", depth |-> 0, data |-> 0, result |-> None, workers |-> <<>>,
     tail_calls |-> tail_calls, calls |-> 0]

InitSerial ==
    /\ max_byte_cnt = 0 /\ mems = <<>> /\ mappings = <<>> /\ built = NotBuilt
    /\ CpuIdle
    /\ \E mode \in StreamModes, input \in {<<>>, <<\h41>>}, tail_calls \in BOOLEAN :
          serial = SerialIO_new("engine", mode, input, tail_calls)

SerialStep(next) ==
    /\ serial' = next
    /\ UNCHANGED lbVars
    /\ UNCHANGED cpuVars

\* the workers that have not left their loop
Alive(s) == {w \in DOMAIN s.workers : s.workers[w] \notin {"done", "killed"}}

\* the host thread is between two calls and may make another
HostIdle ==
    /\ serial.rd = "idle"
    /\ serial.calls < SerialCalls
    /\ serial.host = "engine" => (serial.workers # <<>> /\ ~serial.detached)

\* SerialIO::attach (serial.rs:31-53): the flag is cleared and a worker is
\* spawned
SerialIO_attach ==
    /\ serial.rd = "idle"
    /\ Len(serial.workers) < MaxWorkers
    /\ serial.host = "engine" => serial.workers = <<>>
    /\ SerialStep([serial EXCEPT !.detached = FALSE, !.workers = Append(@, "test")])

\* SerialIO::detach (serial.rs:55-57): the CPU's Drop runs it
SerialIO_detach ==
    /\ serial.rd = "idle"
    /\ IF serial.host = "engine" THEN serial.workers # <<>> /\ ~serial.detached
       ELSE serial.calls < SerialCalls
    /\ SerialStep([serial EXCEPT !.detached = TRUE, !.calls = @ + 1])

\* SerialIO::reset is called: self.read_keys.clear() (serial.rs:26-27)
SerialIO_reset ==
    /\ HostIdle
    /\ SerialStep([serial EXCEPT !.read_keys = <<>>, !.rd = "reset",
                                 !.calls = @ + 1])

\* self.display_keys.lock().unwrap().clear() (serial.rs:28)
ResetLock ==
    /\ serial.rd = "reset"
    /\ serial.dk_lock = 0
    /\ SerialStep([serial EXCEPT !.display_keys = <<>>, !.written = <<>>,
                                 !.out = <<>>, !.rd = "idle"])

\* SerialIO::write is called (serial.rs:72)
SerialIO_write ==
    /\ HostIdle
    /\ Len(serial.written) < MaxKeys
    /\ \E data \in SerialBytes :
          SerialStep([serial EXCEPT !.rd = "write", !.data = data, !.calls = @ + 1])

\* self.display_keys.lock().unwrap().push(data); Some(()) (serial.rs:73-74)
WriteLock ==
    /\ serial.rd = "write"
    /\ serial.dk_lock = 0
    /\ SerialStep([serial EXCEPT !.display_keys = Append(@, serial.data),
                                 !.written = Append(@, serial.data),
                                 !.result = Some(0), !.rd = "idle"])

\* SerialIO::read is called (serial.rs:60)
SerialIO_read ==
    /\ HostIdle
    /\ SerialStep([serial EXCEPT !.rd = "test", !.depth = 0, !.calls = @ + 1])

\* if self.read_keys.is_empty() ... else Some(self.read_keys.remove(0))
\* (serial.rs:61, 67-69)
ReadTest ==
    /\ serial.rd = "test"
    /\ SerialStep(IF serial.read_keys = <<>>
                  THEN [serial EXCEPT !.rd = "lock"]
                  ELSE [serial EXCEPT !.rd = "idle", !.depth = 0,
                                      !.result = Some(Head(serial.read_keys)),
                                      !.read_keys = Tail(@)])

\* self.s.lock() (serial.rs:63)
ReadLock ==
    /\ serial.rd = "lock"
    /\ serial.s_lock = "free"
    /\ SerialStep([serial EXCEPT !.s_lock = "host", !.rd = "read_to_end"])

\* s.read_to_end(&mut self.read_keys).ok()? (serial.rs:64): read_to_end
\* appends what S::read hands it until S::read reports the end of the
\* stream (Ok) or fails (Err, and read returns None); the guard on s is
\* dropped on the way out.
ReadToEnd ==
    /\ serial.rd = "read_to_end"
    /\ \/ /\ serial.input # <<>>
          /\ SerialStep([serial EXCEPT !.read_keys = @ \o serial.input,
                                       !.input = <<>>])
       \/ /\ serial.input = <<>> /\ serial.mode = "eof"
          /\ SerialStep([serial EXCEPT !.s_lock = "free", !.rd = "recurse"])
       \/ /\ serial.input = <<>> /\ serial.mode = "nonblocking"
          /\ SerialStep([serial EXCEPT !.s_lock = "free", !.rd = "idle",
                                       !.depth = 0, !.result = None])

\* self.read(0) (serial.rs:66): a jump back, or one more frame on a stack
\* that has room for StackFrames of them; past that the process is killed
ReadRecurse ==
    /\ serial.rd = "recurse"
    /\ SerialStep(IF serial.tail_calls THEN [serial EXCEPT !.rd = "test"]
                  ELSE IF serial.depth < StackFrames
                       THEN [serial EXCEPT !.rd = "test", !.depth = @ + 1]
                       ELSE [serial EXCEPT !.rd = "overflowed",
                                !.workers = [w \in DOMAIN @ |-> "killed"]])

HostStep == ReadTest \/ ReadLock \/ ReadToEnd \/ ReadRecurse \/ WriteLock \/ ResetLock

\* the worker's loop test, were it not to look at the flag
ThreadTest_ignores_detached(w) ==
    /\ w \in DOMAIN serial.workers
    /\ serial.workers[w] = "test"
    /\ SerialStep([serial EXCEPT !.workers[w] = "keys"])

\* the spawned thread's loop test (serial.rs:39-42)
ThreadTest(w) ==
    /\ w \in DOMAIN serial.workers
    /\ serial.workers[w] = "test"
    /\ SerialStep([serial EXCEPT
          !.workers[w] = IF serial.detached THEN "done" ELSE "keys"])

\* dk.lock(); if dk.is_empty() { continue; } (serial.rs:43-46)
ThreadKeys(w) ==
    /\ w \in DOMAIN serial.workers
    /\ serial.workers[w] = "keys"
    /\ serial.dk_lock = 0
    /\ SerialStep(IF serial.display_keys = <<>>
                  THEN [serial EXCEPT !.workers[w] = "test"]
                  ELSE [serial EXCEPT !.workers[w] = "write", !.dk_lock = w])

\* the write to the stream, were the keys it took to stay queued
ThreadWrite_keeps_keys(w) ==
    /\ w \in DOMAIN serial.workers
    /\ serial.workers[w] = "write"
    /\ serial.s_lock = "free"
    /\ \E n \in 0..Len(serial.display_keys) :
          SerialStep([serial EXCEPT
              !.out = @ \o SubSeq(serial.display_keys, 1, n),
              !.dk_lock = 0, !.workers[w] = "test"])

\* swr.lock(); if let Ok(n) = swr.write(&dk) { dk.drain(0..n); }
\* (serial.rs:47-50): the stream takes the first n keys (Ok(n)) or fails
\* (n = 0 here); both guards are dropped at the end of the iteration
ThreadWrite(w) ==
    /\ w \in DOMAIN serial.workers
    /\ serial.workers[w] = "write"
    /\ serial.s_lock = "free"
    /\ \E n \in 0..Len(serial.display_keys) :
          SerialStep([serial EXCEPT
              !.out = @ \o SubSeq(serial.display_keys, 1, n),
              !.display_keys = SubSeq(@, n + 1, Len(@)),
              !.dk_lock = 0, !.workers[w] = "test"])

ThreadStep(w) == ThreadTest(w) \/ ThreadKeys(w) \/ ThreadWrite(w)

\* the far end of the stream sends a byte
Arrive ==
    /\ serial.mode # "eof"
    /\ serial.arrived < MaxInput
    /\ \E b \in SerialBytes :
          SerialStep([serial EXCEPT !.input = Append(@, b), !.arrived = @ + 1])

\* the far end of the stream closes it
HangUp ==
    /\ serial.mode # "eof"
    /\ SerialStep([serial EXCEPT !.mode = "eof"])

NextSerial ==
    \/ SerialIO_attach \/ SerialIO_detach \/ SerialIO_reset \/ ResetLock
    \/ SerialIO_write \/ WriteLock
    \/ SerialIO_read \/ ReadTest \/ ReadLock \/ ReadToEnd \/ ReadRecurse
    \/ \E w \in 1..MaxWorkers : ThreadTest(w)
    \/ \E w \in 1..MaxWorkers : ThreadKeys(w)
    \/ \E w \in 1..MaxWorkers : ThreadWrite(w)
    \/ Arrive \/ HangUp

\* Each thread that can take a step takes one; the host thread gets a lock
\* that is free again and again.
SerialFairness ==
    /\ SF_vars(HostStep)
    /\ \A w \in 1..MaxWorkers : WF_vars(ThreadStep(w))

SpecSerial == InitSerial /\ [][NextSerial]_vars /\ SerialFairness

(***************************************************************************)
(* SpecWorkers: the SerialIO in the hands of a host that calls attach and  *)
(* detach, and the other calls, in every order.                            *)
(***************************************************************************)
InitWorkers ==
    /\ max_byte_cnt = 0 /\ mems = <<>> /\ mappings = <<>> /\ built = NotBuilt
    /\ CpuIdle
    /\ \E mode \in {"eof", "nonblocking"}, tail_calls \in BOOLEAN :
          serial = SerialIO_new("free", mode, <<\h41>>, tail_calls)

SpecWorkers == InitWorkers /\ [][NextSerial]_vars

(***************************************************************************)
(* SpecService: an interrupt taken at p and served by a handler that       *)
(* loads A, pushes and pulls it below the frame and returns with RTI.      *)
(***************************************************************************)
\* LDA #$80, PHA, LDA #$00, PLA, RTI at 0x0400, which both vectors name
ServiceImage ==
    (\h0400 :> \hA9) @@ (\h0401 :> \h80) @@ (\h0402 :> \h48)
        @@ (\h0403 :> \hA9) @@ (\h0404 :> \h00) @@ (\h0405 :> \h68)
        @@ (\h0406 :> \h40)
        @@ (NMI_VECTOR :> \h00) @@ (NMI_VECTOR + 1 :> \h04)
        @@ (IRQ_VECTOR :> \h00) @@ (IRQ_VECTOR + 1 :> \h04)

InitService ==
    \E p \in {\h0000, \h00FF, \h1234, \hFFFF}, s0 \in {\h00, \h01, \h02, \hFF},
       st \in AllStatuses :
        Started(RamWith(ServiceImage), p, s0, \h11, \h22, \h33, st)

\* n calls of step(), one after the other
RECURSIVE Steps(_, _)
Steps(m, n) ==
    IF n = 0 \/ m.panic THEN m
    ELSE Bind(step(m), LAMBDA r : Steps(r.m, n - 1))

\* the host calls irq() and then step() five times, which runs the handler
\* to the end of its RTI
ServiceIrq ==
    /\ phase = "running"
    /\ ncalls = 0
    /\ \E m \in {Steps(irq(Machine), 5)} :
          Return(m, "irq", <<IF status.int_disable THEN "ignored" ELSE "taken">>)

\* the host calls nmi() and then step() five times
ServiceNmi ==
    /\ phase = "running"
    /\ ncalls = 0
    /\ \E m \in {Steps(nmi(Machine), 5)} : Return(m, "nmi", <<>>)

SpecService == InitService /\ [][ServiceIrq \/ ServiceNmi]_vars

(***************************************************************************)
(* SpecBreak: PLP or RTI loads a status byte, then PHP or BRK runs, with   *)
(* irq() and nmi() arriving between the steps.                             *)
(***************************************************************************)
\* first at 0x0600 finds b on top of the stack, and RTI the address 0x0601
\* above it; second at 0x0601; the IRQ/BRK and NMI handlers are a lone RTI
BreakProgram(first, second, s0, b) ==
    (\h0600 :> first) @@ (\h0601 :> second) @@ (\h0602 :> \h02)
        @@ (256 + ((s0 + 1) % 256) :> b)
        @@ (256 + ((s0 + 2) % 256) :> \h01) @@ (256 + ((s0 + 3) % 256) :> \h06)
        @@ (\h0400 :> \h40)
        @@ (NMI_VECTOR :> \h00) @@ (NMI_VECTOR + 1 :> \h04)
        @@ (IRQ_VECTOR :> \h00) @@ (IRQ_VECTOR + 1 :> \h04)

InitBreak ==
    \E first \in {\h28, \h40}, second \in {\h08, \h00}, s0 \in {\h00, \hFF},
       b \in {\h00, \h10, \h14, \h30, \hEF, \hFB, \hFF} :
        Started(RamWith(BreakProgram(first, second, s0, b)), \h0600, s0,
                \h11, \h22, \h33, StatusDefault)

NextBreak == Step \/ Irq \/ Nmi

SpecBreak == InitBreak /\ [][NextBreak]_vars

(***************************************************************************)
(* SpecWrap: the instructions whose addresses pass the end of the address  *)
(* space, next to the same instructions in the middle of memory, with      *)
(* irq(), nmi() and reset() arriving between the steps.                    *)
(***************************************************************************)
\* JMP ($FFFF) and JMP ($20FF) at 0x0600; LDA ($10),Y and STA ($10),Y at
\* 0x0600 with the pointer 0xFFF0 or 0x3000 in 0x10/0x11; BRK at 0xFFFE and
\* at 0x0600; LDA $2010 at 0xFFFE and at 0x0600.  The vectors name 0x0400,
\* where a byte that does not decode waits (reset: 0x0600).
WrapPrograms ==
    {(\h0600 :> \h6C) @@ (\h0601 :> \hFF) @@ (\h0602 :> q) :
        q \in {\hFF, \h20}}
    \cup {(\h0600 :> op) @@ (\h0601 :> \h10) @@ (\h0602 :> \h02)
            @@ (\h10 :> ptr % 256) @@ (\h11 :> ptr \div 256) :
        op \in {\hB1, \h91}, ptr \in {\hFFF0, \h3000}}
    \cup {(\h0600 :> \h00), (\h0600 :> \hAD) @@ (\h0601 :> \h10) @@ (\h0602 :> \h20)}

WrapVectors ==
    (\h0400 :> \h02)
        @@ (NMI_VECTOR :> \h00) @@ (NMI_VECTOR + 1 :> \h04)
        @@ (RESET_VECTOR :> \h00) @@ (RESET_VECTOR + 1 :> \h06)

\* at 0xFFFE the opcode is the vector's low byte and the operand's first
\* byte its high byte
WrapAtEnd ==
    {(\hFFFE :> \h00) @@ (\hFFFF :> \h04),
     (\hFFFE :> \hAD) @@ (\hFFFF :> \h10) @@ (\h0000 :> \h20)}

InitWrap ==
    \/ \E prog \in WrapPrograms, r \in {\h00, \h0F, \hFF}, s0 \in {\h02, \hFF} :
          Started(RamWith(prog @@ WrapVectors @@ (IRQ_VECTOR :> \h00)
                               @@ (IRQ_VECTOR + 1 :> \h04)),
                  \h0600, s0, \h5A, r, r, StatusDefault)
    \/ \E prog \in WrapAtEnd, r \in {\h00, \hFF}, s0 \in {\h02, \hFF} :
          Started(RamWith(prog @@ WrapVectors), \hFFFE, s0, \h5A, r, r,
                  StatusDefault)

NextWrap == Step \/ Irq \/ Nmi \/ Reset

SpecWrap == InitWrap /\ [][NextWrap]_vars

(***************************************************************************)
(* SpecZeroPage: one step of a load or store in each zero-page indexed and *)
(* indirect mode, with operands and indexes that reach the end of the zero *)
(* page.                                                                   *)
(***************************************************************************)
\* LDA zp,X  LDX zp,Y  STA zp,X  STX zp,Y  LDA (zp,X)  STA (zp,X)
\* LDA (zp),Y  STA (zp),Y
ZeroPageOpcodes == {\hB5, \hB6, \h95, \h96, \hA1, \h81, \hB1, \h91}

\* Every zero-page cell c holds c / 2, so that the word at c names an address
\* of its own; 0x0100, the byte after the zero page, holds 0x20; the
\* instruction is at 0x0600.
ZeroPageImage(opcode, z) ==
    (\h0600 :> opcode) @@ (\h0601 :> z) @@ (\h0602 :> \h02)
        @@ (\h0100 :> \h20)
        @@ [c \in 0..255 |-> c \div 2]

InitZeroPage ==
    \E opcode \in ZeroPageOpcodes, z \in {\h00, \h10, \h80, \hF0, \hFE, \hFF},
       r \in {\h00, \h01, \h0F, \h10, \hFF}, a0 \in {\h5A, \hC3} :
        Started(RamWith(ZeroPageImage(opcode, z)), \h0600, \hFD, a0, r, r,
                StatusDefault)

SpecZeroPage == InitZeroPage /\ [][StepOnce]_vars

(***************************************************************************)
(* Claims about the engine.                                                *)
(***************************************************************************)
\* the byte a read of addr yields in layout l
MemAt(l, addr) ==
    IF Layout_read_byte(l, addr).some THEN Layout_read_byte(l, addr).v ELSE 0

\* the little-endian word at addr and the address after it
WordAt(l, addr) == MemAt(l, addr) + 256 * MemAt(l, (addr + 1) % 65536)

\* the writes of the last call, in order
Writes(b) == SelectSeq(b, LAMBDA e : e.op = "w")

\* this step is the host's call of the named method
Calls(name) == ncalls' = ncalls + 1 /\ ret'.call = name

RegsUnchanged == a' = a /\ x' = x /\ y' = y /\ sp' = sp /\ status' = status

\* C1: when the byte fetched at PC does not decode, step() returns
\* UnknownInst(byte) with PC advanced by exactly one; A, X, Y, SP, the status
\* flags and all of memory are unchanged (the fetch is the only bus access).
C1_UnknownInstOnlyAdvancesPc ==
    [][(Calls("step") /\ ~Decode(MemAt(layout, pc)).some) =>
          /\ ret'.val = <<"UnknownInst", MemAt(layout, pc)>>
          /\ pc' = (pc + 1) % 65536
          /\ RegsUnchanged
          /\ layout' = layout
          /\ bus' = <<Rd(pc, MemAt(layout, pc))>>]_vars

C1_Witness ==
    /\ ret.call = "step"
    /\ ret.val = <<"UnknownInst", \h02>>
    /\ pc = \h0301

\* C6: CPU::new returns None, attaching nothing, for every layout of fewer
\* than 65,536 addresses: a CPU exists only over a full address space.
C6_NewRejectsShortLayouts ==
    layout.byte_cnt < 65536 => (phase \in {"unbuilt", "none"} /\ ~attached)

\* C7: with Interrupt-disable set irq() changes nothing: PC, SP, A, X, Y, the
\* status flags and memory stay as they were and nothing is written.
C7_MaskedIrqIsNoOp ==
    [][(Calls("irq") /\ status.int_disable) =>
          /\ ret'.val = <<"ignored">>
          /\ pc' = pc
          /\ RegsUnchanged
          /\ layout' = layout
          /\ bus' = <<>>]_vars

C7_Witness ==
    /\ ret.call = "irq"
    /\ ret.val = <<"ignored">>
    /\ status.int_disable
    /\ pc = \h0400

\* the packed status byte with Break clear: N V 1 0 D I Z C
PackedBreakClear(st) ==
    Bit(st.negative) * 128 + Bit(st.overflow) * 64 + 32 + Bit(st.decimal) * 8
        + Bit(st.int_disable) * 4 + Bit(st.zero) * 2 + Bit(st.carry)

\* the three writes of an interrupt entry from PC p, stack pointer s and
\* status st: p's high byte at 0x100+s, its low byte at 0x100+(s-1), the
\* status with Break clear at 0x100+(s-2), the offsets modulo 256
InterruptFrame(p, s, st) ==
    << Wr(256 + s, p \div 256),
       Wr(256 + ((s + 255) % 256), p % 256),
       Wr(256 + ((s + 254) % 256), PackedBreakClear(st)) >>

\* C8: with Interrupt-disable clear irq() writes PC high, PC low and the
\* status with Break clear at 0x100+SP, 0x100+(SP-1), 0x100+(SP-2), leaves SP
\* three lower modulo 256, sets Interrupt-disable and loads PC from the word
\* at 0xFFFE/0xFFFF.
C8_IrqPushesFrameAndVectors ==
    [][(Calls("irq") /\ ~status.int_disable) =>
          /\ ret'.val = <<"taken">>
          /\ Writes(bus') = InterruptFrame(pc, sp, status)
          /\ \A k \in 1..3 :
                MemAt(layout', InterruptFrame(pc, sp, status)[k].addr)
                    = InterruptFrame(pc, sp, status)[k].data
          /\ sp' = (sp + 253) % 256
          /\ status' = [status EXCEPT !.int_disable = TRUE]
          /\ pc' = WordAt(layout', IRQ_VECTOR)
          /\ a' = a /\ x' = x /\ y' = y]_vars

C8_Witness ==
    /\ ret.call = "irq"
    /\ ret.val = <<"taken">>
    /\ pc = \h0400
    /\ sp = 253
    /\ MemAt(layout, \h0100) = \h03
    /\ MemAt(layout, \h01FF) = \h07
    /\ MemAt(layout, \h01FE) = 32

\* C9: nmi() pushes the same frame whether Interrupt-disable is set or clear
\* and loads PC from the word at 0xFFFA/0xFFFB.
C9_NmiIsUnconditional ==
    [][Calls("nmi") =>
          /\ ret'.val = <<>>
          /\ Writes(bus') = InterruptFrame(pc, sp, status)
          /\ \A k \in 1..3 :
                MemAt(layout', InterruptFrame(pc, sp, status)[k].addr)
                    = InterruptFrame(pc, sp, status)[k].data
          /\ sp' = (sp + 253) % 256
          /\ pc' = WordAt(layout', NMI_VECTOR)
          /\ a' = a /\ x' = x /\ y' = y]_vars

C9_Witness ==
    /\ ret.call = "nmi"
    /\ status.int_disable
    /\ pc = \h0500
    /\ sp = 250
    /\ MemAt(layout, \h01FB) = 36

\* C10: a JSR at p writes p+2's high byte then its low byte on the stack and
\* jumps to its target, for every p and target; an RTS that finds the two
\* bytes of an address r on top of the stack resumes at r+1 with SP two
\* higher, so the RTS after a JSR at p resumes at p+3 with SP restored.
C10_JsrRtsRoundTrip ==
    [][/\ (Calls("step") /\ MemAt(layout, pc) = \h20) =>
             /\ ret'.val = <<"Ok">>
             /\ Writes(bus') = << Wr(256 + sp, ((pc + 2) % 65536) \div 256),
                                  Wr(256 + ((sp + 255) % 256), ((pc + 2) % 65536) % 256) >>
             /\ sp' = (sp + 254) % 256
             /\ pc' = WordAt(layout, (pc + 1) % 65536)
       /\ (Calls("step") /\ MemAt(layout, pc) = \h60) =>
             /\ ret'.val = <<"Ok">>
             /\ sp' = (sp + 2) % 256
             /\ pc' = (MemAt(layout, 256 + ((sp + 1) % 256))
                        + 256 * MemAt(layout, 256 + ((sp + 2) % 256)) + 1) % 65536]_vars

\* the reads of the last call, in order
Reads(b) == SelectSeq(b, LAMBDA e : e.op = "r")

\* the pulls of the last call: in SpecStack's program no instruction has an
\* operand, so a step's reads after the opcode fetch are its pulls; irq, nmi
\* and reset pull nothing
PullsOf(call, b) == IF call = "step" THEN Tail(Reads(b)) ELSE <<>>

\* SP as the call's first push or pull finds it: reset sets it to 0xFF first
StackTop(call) == IF call = "reset" THEN 255 ELSE sp

\* C11: in every step(), irq(), nmi() and reset() call the k-th push writes
\* at 0x100 + (SP - (k-1)) mod 256 and the k-th pull reads at
\* 0x100 + (SP + k) mod 256, all inside 0x0100..0x01FF, SP ends lower by the
\* pushes and higher by the pulls modulo 256, and after the 256 consecutive
\* PHA that follow TSX SP is back at the value TSX saved in X.
C11_StackStaysInPageOne ==
    [][(ncalls' = ncalls + 1 /\ ret'.val # <<"panic">>) =>
          /\ \A k \in 1..Len(Writes(bus')) :
                /\ Writes(bus')[k].addr = 256 + ((StackTop(ret'.call) + 256 - (k - 1)) % 256)
                /\ Writes(bus')[k].addr \in 256..511
          /\ \A k \in 1..Len(PullsOf(ret'.call, bus')) :
                /\ PullsOf(ret'.call, bus')[k].addr = 256 + ((sp + k) % 256)
                /\ PullsOf(ret'.call, bus')[k].addr \in 256..511
          /\ sp' = (StackTop(ret'.call) + 256 - Len(Writes(bus'))
                        + Len(PullsOf(ret'.call, bus'))) % 256
          /\ (MemAt(layout, pc) = \h48 /\ ret'.call = "step") =>
                (Writes(bus') = <<Wr(256 + sp, a)>> /\ MemAt(layout', 256 + sp) = a)
          /\ (MemAt(layout, pc) = \h68 /\ ret'.call = "step") =>
                (Len(PullsOf("step", bus')) = 1 /\ a' = MemAt(layout, 256 + ((sp + 1) % 256)))
          /\ (pc' = \h0701 /\ ret'.call = "step") => sp' = x']_vars

C11_Witness ==
    /\ ret.call = "step"
    /\ pc = \h0702
    /\ ncalls > 258
    /\ x = 1
    /\ sp = 2
    /\ a = \h5A
    /\ \A c \in 256..511 : MemAt(layout, c) = \h5A

\* the kind of device address addr is routed to in layout l
RoutedTo(l, addr) == l.mems[get_mapping_at_addr(l, addr).v.mem_id + 1].kind

\* C12: a byte written to an address routed to RAM is the byte the next read
\* of that address returns.
C12_RamWriteReadRoundTrip ==
    [][(/\ ret.call = "write_byte"
        /\ RoutedTo(layout, ret.val[1]) = "RAM"
        /\ Calls("read_byte")
        /\ ret'.val[1] = ret.val[1]) => ret'.val[2] = ret.val[2]]_vars

C12_Witness ==
    /\ ret.call = "read_byte"
    /\ ret.val = <<\hFFFF, \hA5>>
    /\ RoutedTo(layout, \hFFFF) = "RAM"
    /\ bus = <<Rd(\hFFFF, \hA5)>>

\* C13: a write to an address routed to ROM is refused by the layout and
\* changes the value read at no address.
C13_RomWriteIsRefused ==
    [][(Calls("write_byte") /\ RoutedTo(layout, ret'.val[1]) = "ROM") =>
          /\ ~Layout_write_byte(layout, ret'.val[1], ret'.val[2]).ack
          /\ layout' = layout
          /\ \A c \in BusAddrs \cup {\h1000, \h2000, \hFFFC} :
                MemAt(layout', c) = MemAt(layout, c)]_vars

C13_Witness ==
    /\ ret.call = "write_byte"
    /\ ret.val = <<\hFFFF, \hA5>>
    /\ RoutedTo(layout, \hFFFF) = "ROM"
    /\ MemAt(layout, \hFFFF) = \h04

\* this step executes the instruction whose opcode is given
Executes(opcode) == Calls("step") /\ MemAt(layout, pc) = opcode

\* the byte after the opcode
Operand == MemAt(layout, (pc + 1) % 65536)

\* what C14 says ADC leaves for accumulator acc, operand m and carry-in c
AdcOutcome(acc, m, c) ==
    [a |-> (acc + m + c) % 256,
     carry |-> acc + m + c > 255,
     overflow |-> BitAnd(BitAnd(BitXor(acc + m + c, acc), BitXor(acc + m + c, m)), 128) # 0,
     zero |-> (acc + m + c) % 256 = 0,
     negative |-> (acc + m + c) % 256 >= 128]

\* A and the four flags after the step are as given, the rest is untouched
AluLeaves(o) ==
    /\ ret'.val = <<"Ok">>
    /\ a' = o.a
    /\ status' = [status EXCEPT !.carry = o.carry, !.overflow = o.overflow,
                                !.zero = o.zero, !.negative = o.negative]
    /\ x' = x /\ y' = y /\ sp' = sp /\ layout' = layout

\* C14: ADC leaves A = (A + operand + carry) mod 256, Carry = (sum > 255),
\* Overflow = (((sum ^ A) & (sum ^ operand) & 0x80) != 0) on the old A,
\* Zero = (A' = 0), Negative = bit 7 of A'; 0x50 + 0x50 with carry clear
\* gives 0xA0 with N and V set and C and Z clear.
C14_AdcSumAndFlags ==
    [][Executes(\h69) =>
          /\ AluLeaves(AdcOutcome(a, Operand, Bit(status.carry)))
          /\ (a = \h50 /\ Operand = \h50 /\ ~status.carry) =>
                /\ a' = \hA0
                /\ status'.negative /\ status'.overflow
                /\ ~status'.carry /\ ~status'.zero]_vars

C14_Witness ==
    /\ ret.call = "step"
    /\ MemAt(layout, \h0600) = \h69
    /\ MemAt(layout, \h0601) = \h50
    /\ pc = \h0602
    /\ a = \hA0
    /\ status.negative /\ status.overflow /\ ~status.carry /\ ~status.zero

\* C15: SBC leaves the A, Carry, Overflow, Zero and Negative that ADC leaves
\* for the complemented operand: A' = (A - operand - (1 - carry)) mod 256 and
\* Carry is set exactly when no borrow occurred.
C15_SbcIsAdcOfComplement ==
    [][Executes(\hE9) =>
          /\ AluLeaves(AdcOutcome(a, 255 - Operand, Bit(status.carry)))
          /\ a' = (a + 256 - Operand - (1 - Bit(status.carry))) % 256
          /\ status'.carry = (a - Operand - (1 - Bit(status.carry)) >= 0)]_vars

C15_Witness ==
    /\ ret.call = "step"
    /\ MemAt(layout, \h0600) = \hE9
    /\ MemAt(layout, \h0601) = \hF0
    /\ pc = \h0602
    /\ a = \h60
    /\ ~status.carry /\ ~status.negative /\ ~status.overflow

\* what C16 says a compare of register value r with operand m leaves
ComparesAs(r, m) ==
    /\ ret'.val = <<"Ok">>
    /\ a' = a /\ x' = x /\ y' = y
    /\ status'.carry = (r >= m)
    /\ status'.zero = (r = m)
    /\ status'.negative = ((r + 256 - m) % 256 >= 128)
    /\ (r = \h10 /\ m = \h20) => (~status'.carry /\ status'.negative /\ ~status'.zero)
    /\ (r = \h20 /\ m = \h20) => (status'.carry /\ status'.zero /\ ~status'.negative)

\* C16: CMP, CPX and CPY leave A, X and Y unchanged and set Carry = (r >= m),
\* Zero = (r = m) and Negative = bit 7 of (r - m) mod 256, r the register
\* compared and m the operand.
C16_CompareSetsFlagsOnly ==
    [][/\ Executes(\hC9) => ComparesAs(a, Operand)
       /\ Executes(\hE0) => ComparesAs(x, Operand)
       /\ Executes(\hC0) => ComparesAs(y, Operand)]_vars

C16_Witness ==
    /\ ret.call = "step"
    /\ MemAt(layout, \h0600) = \hE0
    /\ MemAt(layout, \h0601) = \h20
    /\ pc = \h0602
    /\ a = \h22 /\ x = \h10 /\ y = \h44
    /\ ~status.carry /\ status.negative /\ ~status.zero

\* the condition each branch opcode tests, by the 6502 reference
BranchCondition(opcode, st) ==
    CASE opcode = \h90 -> ~st.carry
      [] opcode = \hB0 -> st.carry
      [] opcode = \hD0 -> ~st.zero
      [] opcode = \hF0 -> st.zero
      [] opcode = \h10 -> ~st.negative
      [] opcode = \h30 -> st.negative
      [] opcode = \h50 -> ~st.overflow
      [] opcode = \h70 -> st.overflow

\* a byte read as a signed 8-bit number
Signed8(b) == IF b >= 128 THEN b - 256 ELSE b

\* C17: a branch at p reads its opcode and exactly one offset byte; PC
\* becomes (p + 2 + offset) mod 65536 with the offset signed when the
\* condition holds and (p + 2) mod 65536 when it does not; A, X, Y, SP, the
\* flags and memory are unchanged.
C17_BranchConsumesOneOffsetByte ==
    [][\A opcode \in {\h90, \hB0, \hD0, \hF0, \h10, \h30, \h50, \h70} :
          Executes(opcode) =>
              /\ ret'.val = <<"Ok">>
              /\ bus' = <<Rd(pc, opcode), Rd((pc + 1) % 65536, Operand)>>
              /\ pc' = IF BranchCondition(opcode, status)
                       THEN (pc + 2 + Signed8(Operand) + 65536) % 65536
                       ELSE (pc + 2) % 65536
              /\ RegsUnchanged
              /\ layout' = layout]_vars

C17_Witness ==
    /\ ret.call = "step"
    /\ ncalls = 1
    /\ MemAt(layout, \hFFFE) = \hF0
    /\ MemAt(layout, \hFFFF) = \h80
    /\ status.zero
    /\ pc = \hFF80
    /\ a = \h11 /\ x = \h22 /\ y = \h33 /\ sp = \hFF

\* C18: BRK with its opcode at p writes (p + 2)'s high byte, then its low
\* byte, then the status with Break set on the stack, sets Interrupt-disable
\* and loads PC from the word at 0xFFFE/0xFFFF.
C18_BrkPushesFrameAndVectors ==
    [][Executes(\h00) =>
          /\ ret'.val = <<"Ok">>
          /\ Writes(bus') =
                << Wr(256 + sp, ((pc + 2) % 65536) \div 256),
                   Wr(256 + ((sp + 255) % 256), ((pc + 2) % 65536) % 256),
                   Wr(256 + ((sp + 254) % 256), PackedBreakClear(status) + 16) >>
          /\ sp' = (sp + 253) % 256
          /\ status' = [status EXCEPT !.int_disable = TRUE]
          /\ pc' = WordAt(layout', IRQ_VECTOR)]_vars

\* the result of the instruction about to run, by the 6502 reference:
\* the value loaded, transferred, pulled, combined, counted or shifted
NzResult(opcode) ==
    CASE opcode \in {\hA9, \hA2, \hA0} -> Operand
      [] opcode \in {\hAA, \hA8} -> a
      [] opcode = \hBA -> sp
      [] opcode = \h8A -> x
      [] opcode = \h98 -> y
      [] opcode = \h68 -> MemAt(layout, 256 + ((sp + 1) % 256))
      [] opcode = \h29 -> BitAnd(a, Operand)
      [] opcode = \h49 -> BitXor(a, Operand)
      [] opcode = \h09 -> BitOr(a, Operand)
      [] opcode = \hE8 -> (x + 1) % 256
      [] opcode = \hC8 -> (y + 1) % 256
      [] opcode = \hCA -> (x + 255) % 256
      [] opcode = \h88 -> (y + 255) % 256
      [] opcode = \hE6 -> (MemAt(layout, Operand) + 1) % 256
      [] opcode = \hC6 -> (MemAt(layout, Operand) + 255) % 256
      [] opcode = \h0A -> (a * 2) % 256
      [] opcode = \h4A -> a \div 2
      [] opcode = \h2A -> ((a * 2) % 256) + Bit(status.carry)
      [] opcode = \h6A -> (a \div 2) + 128 * Bit(status.carry)
      [] opcode = \h06 -> (MemAt(layout, Operand) * 2) % 256
      [] opcode = \h46 -> MemAt(layout, Operand) \div 2
      [] opcode = \h26 -> ((MemAt(layout, Operand) * 2) % 256) + Bit(status.carry)
      [] opcode = \h66 -> (MemAt(layout, Operand) \div 2) + 128 * Bit(status.carry)

\* where that result is after the step
NzLanded(opcode) ==
    CASE opcode \in {\hA9, \h8A, \h98, \h68, \h29, \h49, \h09, \h0A, \h4A, \h2A, \h6A} -> a'
      [] opcode \in {\hA2, \hAA, \hBA, \hE8, \hCA} -> x'
      [] opcode \in {\hA0, \hA8, \hC8, \h88} -> y'
      [] opcode \in {\hE6, \hC6, \h06, \h46, \h26, \h66} -> MemAt(layout', Operand)

\* C19: loads, transfers into A, X, Y, pulls into A, logical operations,
\* increments, decrements, shifts and rotates leave Zero = (result = 0) and
\* Negative = bit 7 of the result; stores, TXS, pushes, flag instructions,
\* branches, JMP, JSR, RTS and NOP leave Zero and Negative as they were.
C19_ZeroNegativeFollowResult ==
    [][/\ \A opcode \in {\hA9, \hA2, \hA0, \hAA, \hA8, \hBA, \h8A, \h98, \h68,
                         \h29, \h49, \h09, \hE8, \hC8, \hCA, \h88, \hE6, \hC6,
                         \h0A, \h4A, \h2A, \h6A, \h06, \h46, \h26, \h66} :
             Executes(opcode) =>
                 /\ ret'.val = <<"Ok">>
                 /\ NzLanded(opcode) = NzResult(opcode)
                 /\ status'.zero = (NzResult(opcode) = 0)
                 /\ status'.negative = (NzResult(opcode) >= 128)
       /\ \A opcode \in {\h85, \h86, \h84, \h9A, \h48, \h08, \h18, \hD8, \h58,
                         \hB8, \h38, \hF8, \h78, \h90, \hB0, \hD0, \hF0, \h10,
                         \h30, \h50, \h70, \h4C, \h6C, \h20, \h60, \hEA} :
             Executes(opcode) =>
                 /\ ret'.val = <<"Ok">>
                 /\ status'.zero = status.zero
                 /\ status'.negative = status.negative]_vars

C19_Witness ==
    /\ ret.call = "step"
    /\ MemAt(layout, \h0600) = \h66
    /\ MemAt(layout, \h0601) = \h01
    /\ MemAt(layout, \h0001) = \h80
    /\ status.negative /\ ~status.zero /\ status.carry
    /\ pc = \h0602

\* bit k of byte b
BitOf(b, k) == (b \div (2 ^ k)) % 2 = 1

\* the byte on top of the stack, which the next pull reads
StackTopByte == MemAt(layout, 256 + ((sp + 1) % 256))

\* the six flags C20 names are the same in both statuses
SameSixFlags(s, t) ==
    /\ s.negative = t.negative /\ s.overflow = t.overflow /\ s.decimal = t.decimal
    /\ s.int_disable = t.int_disable /\ s.zero = t.zero /\ s.carry = t.carry

\* C20: the packed status always has bit 5 set; unpacking the packed status
\* gives back all seven flags, for every combination; packing the status
\* unpacked from a byte b gives b with bit 5 set; and a PLP that follows a PHP
\* leaves Negative, Overflow, Decimal, Interrupt-disable, Zero and Carry as
\* they were before the PHP.
C20_StatusPackingIsExact ==
    [][/\ Executes(\h08) =>
             /\ ret'.val = <<"Ok">>
             /\ BitOf(StatusToByte(status), 5)
             /\ StatusToByte(status) = PackedBreakClear(status) + 16 * Bit(status.break_)
             /\ ByteToStatus(StatusToByte(status)) = status
             /\ Writes(bus') = <<Wr(256 + sp, PackedBreakClear(status) + 16)>>
             /\ status' = status
       /\ Executes(\h28) =>
             /\ ret'.val = <<"Ok">>
             /\ status' = [negative |-> BitOf(StackTopByte, 7),
                           overflow |-> BitOf(StackTopByte, 6),
                           break_ |-> BitOf(StackTopByte, 4),
                           decimal |-> BitOf(StackTopByte, 3),
                           int_disable |-> BitOf(StackTopByte, 2),
                           zero |-> BitOf(StackTopByte, 1),
                           carry |-> BitOf(StackTopByte, 0)]
             /\ StatusToByte(status') = StackTopByte + (IF BitOf(StackTopByte, 5) THEN 0 ELSE 32)
             /\ (ret.call = "step" /\ Writes(bus) # <<>>) =>
                   (SameSixFlags(status', status) /\ sp' = (sp + 1) % 256)]_vars

C20_Witness ==
    /\ ret.call = "step"
    /\ pc = \h0602
    /\ MemAt(layout, \h0600) = \h08
    /\ MemAt(layout, \h0100) = \hFB
    /\ sp = \h00
    /\ status = [negative |-> TRUE, overflow |-> TRUE, break_ |-> TRUE,
                 decimal |-> TRUE, int_disable |-> FALSE, zero |-> TRUE,
                 carry |-> TRUE]

\* The legal opcodes of the 6502 with their mnemonic and addressing mode, as
\* the published opcode matrix has them (accumulator operands are Implied).
ReferenceTable ==
    {
     <<\h69, "ADC", "Immediate">>, <<\h65, "ADC", "ZeroPage">>, <<\h75, "ADC", "ZeroPageX">>,
     <<\h6D, "ADC", "Absolute">>, <<\h7D, "ADC", "AbsoluteX">>, <<\h79, "ADC", "AbsoluteY">>,
     <<\h61, "ADC", "XIndirect">>, <<\h71, "ADC", "IndirectY">>, <<\h29, "AND", "Immediate">>,
     <<\h25, "AND", "ZeroPage">>, <<\h35, "AND", "ZeroPageX">>, <<\h2D, "AND", "Absolute">>,
     <<\h3D, "AND", "AbsoluteX">>, <<\h39, "AND", "AbsoluteY">>, <<\h21, "AND", "XIndirect">>,
     <<\h31, "AND", "IndirectY">>, <<\h0A, "ASL", "Implied">>, <<\h06, "ASL", "ZeroPage">>,
     <<\h16, "ASL", "ZeroPageX">>, <<\h0E, "ASL", "Absolute">>, <<\h1E, "ASL", "AbsoluteX">>,
     <<\h90, "BCC", "Relative">>, <<\hB0, "BCS", "Relative">>, <<\hF0, "BEQ", "Relative">>,
     <<\h30, "BMI", "Relative">>, <<\hD0, "BNE", "Relative">>, <<\h10, "BPL", "Relative">>,
     <<\h50, "BVC", "Relative">>, <<\h70, "BVS", "Relative">>, <<\h24, "BIT", "ZeroPage">>,
     <<\h2C, "BIT", "Absolute">>, <<\h00, "BRK", "Implied">>, <<\h18, "CLC", "Implied">>,
     <<\hD8, "CLD", "Implied">>, <<\h58, "CLI", "Implied">>, <<\hB8, "CLV", "Implied">>,
     <<\hC9, "CMP", "Immediate">>, <<\hC5, "CMP", "ZeroPage">>, <<\hD5, "CMP", "ZeroPageX">>,
     <<\hCD, "CMP", "Absolute">>, <<\hDD, "CMP", "AbsoluteX">>, <<\hD9, "CMP", "AbsoluteY">>,
     <<\hC1, "CMP", "XIndirect">>, <<\hD1, "CMP", "IndirectY">>, <<\hE0, "CPX", "Immediate">>,
     <<\hE4, "CPX", "ZeroPage">>, <<\hEC, "CPX", "Absolute">>, <<\hC0, "CPY", "Immediate">>,
     <<\hC4, "CPY", "ZeroPage">>, <<\hCC, "CPY", "Absolute">>, <<\hC6, "DEC", "ZeroPage">>,
     <<\hD6, "DEC", "ZeroPageX">>, <<\hCE, "DEC", "Absolute">>, <<\hDE, "DEC", "AbsoluteX">>,
     <<\hCA, "DEX", "Implied">>, <<\h88, "DEY", "Implied">>, <<\h49, "EOR", "Immediate">>,
     <<\h45, "EOR", "ZeroPage">>, <<\h55, "EOR", "ZeroPageX">>, <<\h4D, "EOR", "Absolute">>,
     <<\h5D, "EOR", "AbsoluteX">>, <<\h59, "EOR", "AbsoluteY">>, <<\h41, "EOR", "XIndirect">>,
     <<\h51, "EOR", "IndirectY">>, <<\hE6, "INC", "ZeroPage">>, <<\hF6, "INC", "ZeroPageX">>,
     <<\hEE, "INC", "Absolute">>, <<\hFE, "INC", "AbsoluteX">>, <<\hE8, "INX", "Implied">>,
     <<\hC8, "INY", "Implied">>, <<\h4C, "JMP", "Absolute">>, <<\h6C, "JMP", "Indirect">>,
     <<\h20, "JSR", "Absolute">>, <<\hA9, "LDA", "Immediate">>, <<\hA5, "LDA", "ZeroPage">>,
     <<\hB5, "LDA", "ZeroPageX">>, <<\hAD, "LDA", "Absolute">>, <<\hBD, "LDA", "AbsoluteX">>,
     <<\hB9, "LDA", "AbsoluteY">>, <<\hA1, "LDA", "XIndirect">>, <<\hB1, "LDA", "IndirectY">>,
     <<\hA2, "LDX", "Immediate">>, <<\hA6, "LDX", "ZeroPage">>, <<\hB6, "LDX", "ZeroPageY">>,
     <<\hAE, "LDX", "Absolute">>, <<\hBE, "LDX", "AbsoluteY">>, <<\hA0, "LDY", "Immediate">>,
     <<\hA4, "LDY", "ZeroPage">>, <<\hB4, "LDY", "ZeroPageX">>, <<\hAC, "LDY", "Absolute">>,
     <<\hBC, "LDY", "AbsoluteX">>, <<\h4A, "LSR", "Implied">>, <<\h46, "LSR", "ZeroPage">>,
     <<\h56, "LSR", "ZeroPageX">>, <<\h4E, "LSR", "Absolute">>, <<\h5E, "LSR", "AbsoluteX">>,
     <<\hEA, "NOP", "Implied">>, <<\h09, "ORA", "Immediate">>, <<\h05, "ORA", "ZeroPage">>,
     <<\h15, "ORA", "ZeroPageX">>, <<\h0D, "ORA", "Absolute">>, <<\h1D, "ORA", "AbsoluteX">>,
     <<\h19, "ORA", "AbsoluteY">>, <<\h01, "ORA", "XIndirect">>, <<\h11, "ORA", "IndirectY">>,
     <<\h48, "PHA", "Implied">>, <<\h08, "PHP", "Implied">>, <<\h68, "PLA", "Implied">>,
     <<\h28, "PLP", "Implied">>, <<\h2A, "ROL", "Implied">>, <<\h26, "ROL", "ZeroPage">>,
     <<\h36, "ROL", "ZeroPageX">>, <<\h2E, "ROL", "Absolute">>, <<\h3E, "ROL", "AbsoluteX">>,
     <<\h6A, "ROR", "Implied">>, <<\h66, "ROR", "ZeroPage">>, <<\h76, "ROR", "ZeroPageX">>,
     <<\h6E, "ROR", "Absolute">>, <<\h7E, "ROR", "AbsoluteX">>, <<\h40, "RTI", "Implied">>,
     <<\h60, "RTS", "Implied">>, <<\hE9, "SBC", "Immediate">>, <<\hE5, "SBC", "ZeroPage">>,
     <<\hF5, "SBC", "ZeroPageX">>, <<\hED, "SBC", "Absolute">>, <<\hFD, "SBC", "AbsoluteX">>,
     <<\hF9, "SBC", "AbsoluteY">>, <<\hE1, "SBC", "XIndirect">>, <<\hF1, "SBC", "IndirectY">>,
     <<\h38, "SEC", "Implied">>, <<\hF8, "SED", "Implied">>, <<\h78, "SEI", "Implied">>,
     <<\h85, "STA", "ZeroPage">>, <<\h95, "STA", "ZeroPageX">>, <<\h8D, "STA", "Absolute">>,
     <<\h9D, "STA", "AbsoluteX">>, <<\h99, "STA", "AbsoluteY">>, <<\h81, "STA", "XIndirect">>,
     <<\h91, "STA", "IndirectY">>, <<\h86, "STX", "ZeroPage">>, <<\h96, "STX", "ZeroPageY">>,
     <<\h8E, "STX", "Absolute">>, <<\h84, "STY", "ZeroPage">>, <<\h94, "STY", "ZeroPageX">>,
     <<\h8C, "STY", "Absolute">>, <<\hAA, "TAX", "Implied">>, <<\hA8, "TAY", "Implied">>,
     <<\hBA, "TSX", "Implied">>, <<\h8A, "TXA", "Implied">>, <<\h9A, "TXS", "Implied">>,
     <<\h98, "TYA", "Implied">>
    }

ReferenceEntry(byte) ==
    IF \E e \in ReferenceTable : e[1] = byte
    THEN LET e == CHOOSE e \in ReferenceTable : e[1] = byte
         IN <<"Some", e[2], e[3]>>
    ELSE <<"None">>

\* C21: decode_inst maps every legal 6502 opcode to the mnemonic and the
\* addressing mode of the reference table and every other byte to none.
C21_DecodeInstMatchesReferenceTable ==
    ret.call = "decode_inst" =>
        ret.val = ReferenceEntry(Layout_read_byte(layout, pc).v)

\* C22: whatever the registers, flags, PC, SP and memory are, reset() leaves
\* A = X = Y = 0, all seven flags clear and PC equal to the little-endian
\* word at 0xFFFC/0xFFFD, which is the word that was there before the call.
C22_ResetClearsAndLoadsVector ==
    [][Calls("reset") =>
          /\ a' = 0 /\ x' = 0 /\ y' = 0
          /\ status' = StatusDefault
          /\ pc' = WordAt(layout', RESET_VECTOR)
          /\ pc' = WordAt(layout, RESET_VECTOR)]_vars

C22_Witness ==
    /\ ret.call = "reset"
    /\ ncalls = 3
    /\ bus[1] = Wr(\h01FF, \h03)
    /\ bus[2] = Wr(\h01FE, \h05)
    /\ pc = \h0301
    /\ a = 0 /\ x = 0 /\ y = 0
    /\ status = StatusDefault

\* h is one run of the named hook on each device of l, in registration order
SweptOnceInOrder(h, l, name) ==
    /\ Len(h) = Len(l.mems)
    /\ \A k \in 1..Len(h) : h[k].hook = name /\ h[k].dev = k - 1

ReadRefused(l, addr) == ~Layout_read_byte(l, addr).some

\* the layout acknowledges no write to addr
WriteRefused(l, addr) == ~Layout_write_byte(l, addr, 0).ack

\* C25: a read the layout answers with none gives the engine 0, and a write
\* the layout refuses changes nothing; the step of a decodable instruction
\* that meets either returns Ok and the CPU stays usable.
C25_RefusalsAreAbsorbed ==
    [][(Calls("step") /\ Decode(MemAt(layout, pc)).some) =>
          /\ ret'.val = <<"Ok">>
          /\ phase' = "running"
          /\ \A k \in DOMAIN bus' :
                /\ (bus'[k].op = "r" /\ ReadRefused(layout, bus'[k].addr)) =>
                        bus'[k].data = 0
                /\ (bus'[k].op = "w" /\ WriteRefused(layout, bus'[k].addr)) =>
                        /\ Layout_read_byte(layout', bus'[k].addr)
                              = Layout_read_byte(layout, bus'[k].addr)
          /\ (\A k \in DOMAIN bus' :
                 bus'[k].op = "w" => WriteRefused(layout, bus'[k].addr)) =>
                layout' = layout]_vars

\* INC on the device's cell: the refused read gave 0, the write of 1 was
\* refused, the step returned Ok with Zero and Negative clear.
C25_Witness ==
    /\ ret.call = "step"
    /\ ret.val = <<"Ok">>
    /\ ncalls = 1
    /\ pc = \h0603
    /\ bus = <<Rd(\h0600, \hEE), Rd(\h0601, \h00), Rd(\h0602, \h40),
               Rd(\h4000, 0), Wr(\h4000, 1)>>
    /\ ReadRefused(layout, \h4000)
    /\ ~status.zero /\ ~status.negative
    /\ phase = "running"

\* the operand bytes of an addressing mode
OperandLength(mode) ==
    CASE mode = "Implied" -> 0
      [] mode \in {"Immediate", "ZeroPage", "ZeroPageX", "ZeroPageY", "XIndirect",
                   "IndirectY", "Relative"} -> 1
      [] mode \in {"Absolute", "AbsoluteX", "AbsoluteY", "Indirect"} -> 2

\* the step about to run does not transfer control: no JMP, JSR, RTS, RTI or
\* BRK and no branch whose condition holds
FallsThrough ==
    /\ Decode(MemAt(layout, pc)).some
    /\ Decode(MemAt(layout, pc)).v[1] \notin {"JMP", "JSR", "RTS", "RTI", "BRK"}
    /\ Decode(MemAt(layout, pc)).v[2] = "Relative" =>
          ~BranchCondition(MemAt(layout, pc), status)

\* C26: one step of a decodable instruction that does not transfer control
\* returns Ok with PC = (PC + 1 + n) mod 65536, n being the operand length of
\* the instruction's addressing mode.
C26_PcAdvancesByOperandLength ==
    [][(Calls("step") /\ FallsThrough) =>
          /\ ret'.val = <<"Ok">>
          /\ pc' = (pc + 1 + OperandLength(Decode(MemAt(layout, pc)).v[2])) % 65536]_vars

\* C27: reset() writes no byte: memory and the bus see nothing but the two
\* reads of the reset vector.
C27_ResetWritesNothing ==
    [][Calls("reset") =>
          /\ Writes(bus') = <<>>
          /\ layout' = layout
          /\ bus' = <<Rd(RESET_VECTOR, MemAt(layout, RESET_VECTOR)),
                      Rd(RESET_VECTOR + 1, MemAt(layout, RESET_VECTOR + 1))>>]_vars

\* the CPU a step from the current state with Decimal inverted would leave
DecimalTwin == step([Machine EXCEPT !.status.decimal = ~status.decimal]).m

\* C28: ADC and SBC leave the same A, Carry, Overflow, Zero and Negative
\* when Decimal is set as when it is clear, namely those of the binary sum,
\* and leave Decimal as it was.
C28_DecimalIsNotInterpreted ==
    [][(Executes(\h69) \/ Executes(\hE9)) =>
          /\ AluLeaves(AdcOutcome(a, IF MemAt(layout, pc) = \h69 THEN Operand
                                     ELSE 255 - Operand,
                                  Bit(status.carry)))
          /\ status'.decimal = status.decimal
          /\ \E twin \in {DecimalTwin} :
                /\ a' = twin.a
                /\ status'.carry = twin.status.carry
                /\ status'.overflow = twin.status.overflow
                /\ status'.zero = twin.status.zero
                /\ status'.negative = twin.status.negative
                /\ twin.status.decimal = ~status.decimal]_vars

\* 0x09 + 0x01 with Decimal set is 0x0A, not the decimal 0x10
C28_Witness ==
    /\ ret.call = "step"
    /\ MemAt(layout, \h0600) = \h69
    /\ MemAt(layout, \h0601) = \h01
    /\ pc = \h0602
    /\ a = \h0A
    /\ status.decimal
    /\ ~status.carry /\ ~status.zero /\ ~status.negative /\ ~status.overflow

\* C29: a step of JMP Absolute returns Ok with PC = the little-endian word of
\* its two operand bytes; a step of JMP Indirect with operand q returns Ok
\* with PC = the byte at q + 256 * the byte at (q + 1) mod 65536, for every q.
C29_JmpLoadsPc ==
    [][/\ Executes(\h4C) =>
             /\ ret'.val = <<"Ok">>
             /\ pc' = WordAt(layout, (pc + 1) % 65536)
       /\ Executes(\h6C) =>
             /\ ret'.val = <<"Ok">>
             /\ pc' = WordAt(layout, WordAt(layout, (pc + 1) % 65536))]_vars

\* the host thread is inside SerialIO::read
InRead == serial.rd \in {"test", "lock", "read_to_end", "recurse", "overflowed"}

\* C30: every call of SerialIO::read returns, with a byte or with none,
\* whatever the stream holds.
C30_ReadReturns == InRead ~> (serial.rd = "idle")

\* a worker holds the lock on display_keys and waits for the lock on the
\* stream while the host holds that and waits for the lock on display_keys
LockCycle ==
    \E w \in DOMAIN serial.workers :
        /\ serial.workers[w] = "write" /\ serial.dk_lock = w
        /\ serial.s_lock = "host"
        /\ serial.rd \in {"write", "reset"}

C32_RtiUndoesInterrupt ==
    [][(Calls("nmi") \/ (Calls("irq") /\ ~status.int_disable)) =>
          /\ phase' = "running"
          /\ pc' = pc
          /\ sp' = sp
          /\ SameSixFlags(status', status)
          /\ Writes(bus')[1] = Wr(256 + sp, pc \div 256)
          /\ bus'[Len(bus')] = Rd(256 + sp, pc \div 256)]_vars

\* an nmi at 0xFFFF with SP = 0x01 and Interrupt-disable set: the frame
\* wrapped around the stack page and the RTI brought everything back
C32_Witness ==
    /\ ret.call = "nmi"
    /\ pc = \hFFFF /\ sp = \h01
    /\ a = \h80
    /\ status.int_disable /\ status.carry /\ status.overflow /\ ~status.zero
    /\ MemAt(layout, \h0101) = \hFF
    /\ MemAt(layout, \h0100) = \hFF
    /\ MemAt(layout, \h01FE) = \h80
    /\ Len(bus) > 10

\* the device address addr is routed to in layout l, as <<MemId, address>>
RoutedCell(l, addr) ==
    <<get_mapping_at_addr(l, addr).v.mem_id,
      Translate(get_mapping_at_addr(l, addr).v, addr)>>

\* C33: in a Layout that build() returns, every address goes to its table
\* entry's device at physical base + (address - virtual start), which is
\* below the device's byte count; no two addresses go to the same cell of
\* the same device; and a write to one address changes what is read at no
\* other address.
C33_TranslationIsInjective ==
    built.tag = "Ok" =>
        LET l == built.layout IN
        \A addr \in 0..(l.byte_cnt - 1) :
            /\ get_mapping_at_addr(l, addr).some
            /\ RoutedCell(l, addr)[2]
                  = get_mapping_at_addr(l, addr).v.physical_addr_start
                      + (addr - get_mapping_at_addr(l, addr).v.virtual_addr_start)
            /\ RoutedCell(l, addr)[2] < get_byte_count(l.mems[RoutedCell(l, addr)[1] + 1])
            /\ \A other \in 0..(l.byte_cnt - 1) \ {addr} :
                  /\ RoutedCell(l, other) # RoutedCell(l, addr)
                  /\ \A data \in {\h00, \hA5} :
                        Layout_read_byte(Layout_write_byte(l, addr, data).layout, other)
                            = Layout_read_byte(l, other)

\* a RAM in two windows around a ROM, the upper window at physical base 1,
\* and a write to the upper window that a read sees
C33_Witness ==
    /\ built.tag = "Ok"
    /\ DOMAIN built.layout.mappings = {0, 1, 2}
    /\ RoutedCell(built.layout, 0) = <<0, 0>>
    /\ RoutedCell(built.layout, 1) = <<1, 0>>
    /\ RoutedCell(built.layout, 2) = <<0, 1>>
    /\ built.layout.mems[2].kind = "ROM"
    /\ Layout_read_byte(Layout_write_byte(built.layout, 2, \hA5).layout, 2) = Some(\hA5)

\* the status byte pushed by the call that just ended: its last write
PushedStatus(b) == Writes(b)[Len(Writes(b))].data

\* C34: whatever PLP or RTI loaded into the flags, the status byte that a
\* taken irq() or an nmi() pushes (the third byte of the frame) has bit 4
\* clear and bit 5 set, and the status byte that BRK (third byte) or PHP
\* pushes has bits 4 and 5 set.
C34_PushedBreakBit ==
    [][/\ (Calls("nmi") \/ (Calls("irq") /\ ~status.int_disable)) =>
             /\ Len(Writes(bus')) = 3
             /\ ~BitOf(PushedStatus(bus'), 4)
             /\ BitOf(PushedStatus(bus'), 5)
       /\ (Executes(\h00) /\ phase' = "running") =>
             /\ Len(Writes(bus')) = 3
             /\ BitOf(PushedStatus(bus'), 4)
             /\ BitOf(PushedStatus(bus'), 5)
       /\ Executes(\h08) =>
             /\ Len(Writes(bus')) = 1
             /\ BitOf(PushedStatus(bus'), 4)
             /\ BitOf(PushedStatus(bus'), 5)]_vars

\* PLP loaded 0xFB, Break included, and the nmi() that followed pushed 0xEB
C34_Witness ==
    /\ ret.call = "nmi"
    /\ ncalls = 2
    /\ MemAt(layout, \h0600) = \h28
    /\ status.break_ /\ ~status.int_disable
    /\ Len(Writes(bus)) = 3
    /\ PushedStatus(bus) = \hEB

\* C35: every step(), irq(), nmi() and reset() call returns, without an
\* arithmetic overflow: JMP ($FFFF) takes its target's low byte from 0xFFFF
\* and its high byte from 0x0000, BRK at 0xFFFE pushes the address 0x0000,
\* and LDA ($zp),Y reads at (pointer + Y) mod 65536.
C35_AddressesWrap ==
    [][ncalls' = ncalls + 1 =>
          /\ phase' = "running"
          /\ (ret'.call = "step" /\ MemAt(layout, pc) = \h6C) =>
                pc' = WordAt(layout, WordAt(layout, (pc + 1) % 65536))
          /\ (ret'.call = "step" /\ MemAt(layout, pc) = \h00 /\ pc = \hFFFE) =>
                /\ Writes(bus')[1].data = 0 /\ Writes(bus')[2].data = 0
                /\ pc' = WordAt(layout', IRQ_VECTOR)
          /\ (ret'.call = "step" /\ MemAt(layout, pc) = \hB1) =>
                a' = MemAt(layout, (WordAt(layout, Operand) + y) % 65536)]_vars

\* the little-endian word in the zero-page cells z and (z + 1) mod 256
ZeroPageWord(l, z) == MemAt(l, z) + 256 * MemAt(l, (z + 1) % 256)

\* the effective address of the zero-page mode of the instruction about to
\* run, by the 6502 reference
ZeroPageTarget ==
    CASE MemAt(layout, pc) \in {\hB5, \h95} -> (Operand + x) % 256
      [] MemAt(layout, pc) \in {\hB6, \h96} -> (Operand + y) % 256
      [] MemAt(layout, pc) \in {\hA1, \h81} -> ZeroPageWord(layout, (Operand + x) % 256)
      [] MemAt(layout, pc) \in {\hB1, \h91} -> (ZeroPageWord(layout, Operand) + y) % 65536

\* C36: a load or store in mode zp,X or zp,Y reads or writes the zero-page
\* cell (operand + index) mod 256, and one in mode (zp,X) or (zp),Y takes
\* its pointer from the zero-page cells z and (z + 1) mod 256, also for
\* z = 0xFF.
C36_ZeroPageStaysInZeroPage ==
    [][(Calls("step") /\ MemAt(layout, pc) \in ZeroPageOpcodes) =>
          /\ ret'.val = <<"Ok">>
          /\ MemAt(layout, pc) \in {\hB5, \hA1, \hB1} =>
                a' = MemAt(layout, ZeroPageTarget)
          /\ MemAt(layout, pc) = \hB6 => x' = MemAt(layout, ZeroPageTarget)
          /\ MemAt(layout, pc) \in {\h95, \h81, \h91} =>
                Writes(bus') = <<Wr(ZeroPageTarget, a)>>
          /\ MemAt(layout, pc) = \h96 => Writes(bus') = <<Wr(ZeroPageTarget, x)>>]_vars

\* C37: while the device is attached and since the last reset(), the bytes
\* the stream has taken followed by the bytes still queued are the bytes
\* handed to write(), in the order of the calls: whatever count the stream
\* takes at a time and however the calls interleave with the worker, no byte
\* reaches the stream twice, out of order or not at all once the queue has
\* drained.
C37_WritesDeliveredInOrder ==
    serial.written = serial.out \o serial.display_keys

\* two different bytes were written, the worker handed both to the stream
\* and the queue has drained while the device is attached
C37_Witness ==
    /\ ~serial.detached
    /\ serial.written = <<\h0D, \h41>>
    /\ serial.out = <<\h0D, \h41>>
    /\ serial.display_keys = <<>>
    /\ serial.dk_lock = 0

\* C38: whatever attach() and detach() calls were made on the SerialIO, at
\* most one of the workers it spawned is still in its loop: an earlier
\* worker has left before a later one runs.
C38_AtMostOneWorker ==
    Cardinality(Alive(serial)) <= 1

====
